---- MODULE Spec2Model ----
(***************************************************************************)
(* A model of the query-composition engine of code-and-money/zbs:          *)
(* SqlFragment, its compiler (src/db/core.ts), the helpers of              *)
(* src/db/utils.ts and the shortcut builders (insert, upsert, update,      *)
(* deletes, truncate, select ...).                                         *)
(*                                                                         *)
(* A JavaScript string is a sequence of text pieces.  An identifier is     *)
(* spelled character by character (every piece is one character), so       *)
(* that quoting, splitting on '.' and snake-casing work on characters.     *)
(* Library literals and caller data strings are single pieces.  String     *)
(* concatenation is \o.                                                    *)
(*                                                                         *)
(* Every JavaScript value is a record with a tag field t.                  *)
(***************************************************************************)
EXTENDS Integers, Sequences, FiniteSets, TLC

VARIABLES
  config,   \* the process-wide configuration record read by getConfig()
  call,     \* the last builder call made by the caller: its name and arguments
  frag,     \* the SqlFragment that call returned
  compiled, \* what frag.compile() returned (or the error it raised)
  pc,       \* position inside SqlFragment.run
  force,    \* the force argument of the run in progress
  queryable,\* the queryable argument of the run in progress: its transaction-id slot
  driver,   \* the call of queryable.query that run awaits, or the rows it answered with
  events,   \* what run has done so far, in order: listener and driver invocations
  outcome,  \* how run ended: the resolved value or the error
  compiles, \* what the further compilations of the fragment returned, oldest first
  preparedNameSeq,           \* core.ts: the counter behind the default prepared-statement names
  preparedNames,             \* the names prepared() has assigned so far, oldest first
  warnedAboutInt8AndNumeric, \* pg-types.ts: the latch of the large-numbers warning
  tsCalls                    \* the calls of tsTypeForPgType so far, oldest first

\* the module-level state of core.ts and of pg-types.ts, with its history
process == <<preparedNameSeq, preparedNames, warnedAboutInt8AndNumeric, tsCalls>>

vars == <<config, call, frag, compiled, pc, force, queryable, driver, events, outcome, compiles, process>>

-----------------------------------------------------------------------------
(* Values *)

Q == "\""

Undef == [t |-> "undef"]
Null == [t |-> "null"]
Inst == [t |-> "inst"]                   \* an instance of a class, e.g. new Date()

\* a sequence with its elements evaluated
Elements(s) == SubSeq(s, 1, Len(s))

Num(n) == [t |-> "num", n |-> n]
Str(s) == [t |-> "str", s |-> s]
Bool(b) == [t |-> "bool", b |-> b]
Arr(a) == [t |-> "arr", a |-> Elements(a)]
Obj(kv) == [t |-> "obj", kv |-> Elements(kv)]      \* a plain object: entries in insertion order

Default == [t |-> "Default"]
self == [t |-> "self"]
all == [t |-> "all"]

Parameter(value, cast) == [t |-> "param", value |-> value, cast |-> cast]
param(x, cast) == Parameter(x, cast)
DangerousRawString(value) == [t |-> "raw", value |-> value]
raw(x) == DangerousRawString(x)
ColumnNames(value) == [t |-> "cols", value |-> value]
cols(x) == ColumnNames(x)
ColumnValues(value) == [t |-> "vals", value |-> value]
vals(x) == ColumnValues(x)
ParentColumn(value) == [t |-> "parent", value |-> value]
parent(x) == ParentColumn(x)

SqlFragment(literals, expressions) ==
  [t |-> "frag", literals |-> Elements(literals), expressions |-> Elements(expressions),
   runResultTransform |-> "camelRows",
   parentTable |-> Undef, preparedName |-> Undef,
   noop |-> FALSE, noopResult |-> Undef]

sql(literals, expressions) == SqlFragment(literals, expressions)

\* JavaScript truthiness of the values the engine tests with if (...) / assert(...)
Truthy(v) ==
  CASE v.t = "undef" -> FALSE
    [] v.t = "null" -> FALSE
    [] v.t = "str" -> v.s # <<>>
    [] v.t = "num" -> v.n # 0
    [] v.t = "bool" -> v.b
    [] OTHER -> TRUE

-----------------------------------------------------------------------------
(* Characters and strings *)

charCodeAt(c) ==
  CASE c = "a" -> 97 [] c = "b" -> 98 [] c = "t" -> 116 [] c = "u" -> 117
    [] c = "A" -> 65 [] c = "B" -> 66
    [] c = "." -> 46 [] c = "_" -> 95 [] c = Q -> 34
    [] OTHER -> 120

isUpper(c) == charCodeAt(c) >= 65 /\ charCodeAt(c) <= 90
isLower(c) == charCodeAt(c) >= 97 /\ charCodeAt(c) <= 122

hasUppercase(str) == \E i \in 1..Len(str) : isUpper(str[i])

toLowerCase(c) == CASE c = "A" -> "a" [] c = "B" -> "b" [] OTHER -> c

startsWith(str, c) == Len(str) > 0 /\ str[1] = c
endsWith(str, c) == Len(str) > 0 /\ str[Len(str)] = c

RECURSIVE join(_, _)
join(strs, sep) ==
  IF strs = <<>> THEN <<>>
  ELSE IF Len(strs) = 1 THEN strs[1]
  ELSE strs[1] \o sep \o join(Tail(strs), sep)

\* str.split(".")
RECURSIVE split(_, _)
split(str, c) ==
  IF \A i \in 1..Len(str) : str[i] # c THEN <<str>>
  ELSE LET i == CHOOSE j \in 1..Len(str) : str[j] = c /\ \A k \in 1..(j - 1) : str[k] # c
       IN <<SubSeq(str, 1, i - 1)>> \o split(SubSeq(str, i + 1, Len(str)), c)

\* str.replace(/[.]/g, to)
RECURSIVE replaceAll(_, _, _)
replaceAll(str, c, to) ==
  IF str = <<>> THEN <<>>
  ELSE (IF Head(str) = c THEN to ELSE <<Head(str)>>) \o replaceAll(Tail(str), c, to)

\* the order of Array.prototype.sort() on strings: by UTF-16 code units
RECURSIVE StrLess(_, _)
StrLess(x, y) ==
  IF y = <<>> THEN FALSE
  ELSE IF x = <<>> THEN TRUE
  ELSE IF charCodeAt(Head(x)) # charCodeAt(Head(y)) THEN charCodeAt(Head(x)) < charCodeAt(Head(y))
  ELSE StrLess(Tail(x), Tail(y))

RECURSIVE SortInto(_, _)
SortInto(x, sorted) ==
  IF sorted = <<>> THEN <<x>>
  ELSE IF StrLess(Head(sorted), x) THEN <<Head(sorted)>> \o SortInto(x, Tail(sorted))
  ELSE <<x>> \o sorted

RECURSIVE sort(_)
sort(strs) == IF strs = <<>> THEN <<>> ELSE SortInto(Head(strs), sort(Tail(strs)))

\* es-toolkit's words(): the matches of
\*   /\p{Lu}?\p{Ll}+|[0-9]+|\p{Lu}+(?!\p{Ll})|...|\p{L}+/gu
\* over the letters of the model's alphabet (no digits)
RECURSIVE RunEnd(_, _, _)
RunEnd(str, i, upper) ==
  IF i + 1 <= Len(str) /\ (IF upper THEN isUpper(str[i + 1]) ELSE isLower(str[i + 1]))
  THEN RunEnd(str, i + 1, upper) ELSE i

RECURSIVE words(_, _)
words(str, i) ==
  IF i > Len(str) THEN <<>>
  ELSE IF isLower(str[i]) THEN
    LET j == RunEnd(str, i, FALSE) IN <<SubSeq(str, i, j)>> \o words(str, j + 1)
  ELSE IF isUpper(str[i]) THEN
    IF i + 1 <= Len(str) /\ isLower(str[i + 1]) THEN
      LET j == RunEnd(str, i + 1, FALSE) IN <<SubSeq(str, i, j)>> \o words(str, j + 1)
    ELSE
      LET m == RunEnd(str, i, TRUE)
          j == IF m + 1 <= Len(str) /\ isLower(str[m + 1]) THEN m - 1 ELSE m
      IN <<SubSeq(str, i, j)>> \o words(str, j + 1)
  ELSE words(str, i + 1)

snakeCase(str) ==
  LET ws == words(str, 1)
  IN join([i \in 1..Len(ws) |-> [j \in 1..Len(ws[i]) |-> toLowerCase(ws[i][j])]], <<"_">>)

toUpperCase(c) == CASE c = "a" -> "A" [] c = "b" -> "B" [] c = "t" -> "T" [] c = "u" -> "U" [] OTHER -> c

\* es-toolkit's camelCase(): the first word in lower case, the others capitalized
camelCase(str) ==
  LET ws == words(str, 1)
      lower(w) == [j \in 1..Len(w) |-> toLowerCase(w[j])]
      capitalize(w) == <<toUpperCase(w[1])>> \o Tail(lower(w))
  IN join([i \in 1..Len(ws) |-> IF i = 1 THEN lower(ws[i]) ELSE capitalize(ws[i])], <<>>)

-----------------------------------------------------------------------------
(* Plain objects *)

ObjectKeys(obj) == [i \in 1..Len(obj.kv) |-> obj.kv[i].k]

HasKey(obj, key) == \E i \in 1..Len(obj.kv) : obj.kv[i].k = key

\* obj[key]
Get(obj, key) ==
  IF HasKey(obj, key)
  THEN obj.kv[CHOOSE i \in 1..Len(obj.kv) : obj.kv[i].k = key].v
  ELSE Undef

\* obj[key] = value: an existing key keeps its place, a new one goes last
Put(obj, key, value) ==
  IF HasKey(obj, key)
  THEN Obj([i \in 1..Len(obj.kv) |-> IF obj.kv[i].k = key THEN [k |-> key, v |-> value] ELSE obj.kv[i]])
  ELSE Obj(Append(obj.kv, [k |-> key, v |-> value]))

\* JSON.stringify of an array or plain object
RECURSIVE JSONstringify(_)
JSONstringify(v) ==
  CASE v.t = "num" -> <<ToString(v.n)>>
    [] v.t = "str" -> <<Q>> \o v.s \o <<Q>>
    [] v.t = "bool" -> <<ToString(v.b)>>
    [] v.t = "arr" ->
         <<"[">> \o join([i \in 1..Len(v.a) |->
                           IF v.a[i].t = "undef" THEN <<"null">> ELSE JSONstringify(v.a[i])], <<",">>)
               \o <<"]">>
    [] v.t = "obj" ->
         LET kept == SelectSeq(v.kv, LAMBDA e : e.v.t # "undef")
         IN <<"{">> \o join([i \in 1..Len(kept) |->
                              <<Q>> \o kept[i].k \o <<Q, ":">> \o JSONstringify(kept[i].v)], <<",">>)
                \o <<"}">>
    [] v.t = "inst" -> <<"{}">>
    [] OTHER -> <<"null">>

-----------------------------------------------------------------------------
(* SqlFragment.compile and compileExpression (src/db/core.ts) *)

\* The compiled query { text, values, name? }.  err is the exception in
\* flight ("" when none): once it is set every later statement is skipped.
\* rendered is a history of the Parameter branch: the placeholder written
\* and the value pushed with it.
StartState == [text |-> <<>>, values |-> <<>>, name |-> Undef, err |-> "", rendered |-> <<>>]

appendText(result, s) == IF result.err # "" THEN result ELSE [result EXCEPT !.text = @ \o s]

\* nothing is raised
throwNothing(result, e) == result

throw(result, e) == IF result.err # "" THEN result ELSE [result EXCEPT !.err = e]

\* a 0-based placeholder index
placeholderZeroBased(result) == "$" \o ToString(Len(result.values))

\* `$${String(result.values.length + 1)}`
placeholder(result) == "$" \o ToString(Len(result.values) + 1)

\* typeof v === "object" && v !== null && v.constructor === Object && v.toString() === "[object Object]"
isPlainObject(v) == v.t = "obj"

\* the global flags applied without looking at cast === false
castsToJsonDespiteFalse(expression) ==
  LET castTrue == expression.cast.t = "bool" /\ expression.cast.b
  IN \/ ((castTrue \/ config.castArrayParamsToJson) /\ expression.value.t = "arr")
     \/ ((castTrue \/ config.castObjectParamsToJson) /\ isPlainObject(expression.value))

\* the condition of the first branch of the Parameter case
castsToJson(expression) ==
  LET castFalse == expression.cast.t = "bool" /\ ~expression.cast.b
      castTrue == expression.cast.t = "bool" /\ expression.cast.b
  IN \/ (~castFalse /\ (castTrue \/ config.castArrayParamsToJson) /\ expression.value.t = "arr")
     \/ (~castFalse /\ (castTrue \/ config.castObjectParamsToJson) /\ isPlainObject(expression.value))

pushValue(result, ph, value, text) ==
  [result EXCEPT !.values = Append(@, value),
                 !.text = @ \o text,
                 !.rendered = Append(@, [placeholder |-> ph, value |-> value])]

compileParameter(expression, result) ==
  LET ph == placeholder(result)
  IN IF castsToJson(expression)
     THEN pushValue(result, ph, Str(JSONstringify(expression.value)), <<"CAST(", ph, " AS \"json\")">>)
     ELSE IF expression.cast.t = "str"
     THEN pushValue(result, ph, expression.value, <<"CAST(", ph, " AS \"">> \o expression.cast.s \o <<"\")">>)
     ELSE pushValue(result, ph, expression.value, <<ph>>)

compileStringUnsplit(expression) ==
  IF hasUppercase(expression) THEN <<Q>> \o snakeCase(expression) \o <<Q>>
  ELSE <<Q>> \o expression \o <<Q>>

\* the typeof expression === "string" branch: what is added to text
compileString(expression) ==
  IF hasUppercase(expression)
  THEN LET parts == split(expression, ".")
       IN join([i \in 1..Len(parts) |-> <<Q>> \o snakeCase(parts[i]) \o <<Q>>], <<".">>)
  ELSE IF startsWith(expression, Q) /\ endsWith(expression, Q)
       THEN expression
       ELSE <<Q>> \o replaceAll(expression, ".", <<Q, ".", Q>>) \o <<Q>>

\* ColumnNames: the array itself, or the object's keys in a repeatable order
columnNamesOf(value) ==
  IF value.t = "arr" THEN [i \in 1..Len(value.a) |-> value.a[i].s]
  ELSE sort(ObjectKeys(value))

\* Object.keys(expression).sort() of the Whereable branch
whereableKeys(expression) ==
  IF expression.t = "obj" THEN sort(ObjectKeys(expression)) ELSE <<>>

columnValueExpressionSpliced(columnValue) ==
  IF columnValue.t = "str" THEN raw(columnValue.s)
  ELSE IF columnValue.t \in {"frag", "param", "Default"} THEN columnValue
  ELSE Parameter(columnValue, Undef)

\* what the object form of ColumnValues compiles for a value
columnValueExpression(columnValue) ==
  IF columnValue.t \in {"frag", "param", "Default"} THEN columnValue ELSE Parameter(columnValue, Undef)

\* what the array form of ColumnValues compiles for a value
arrayValueExpression(value) ==
  IF value.t = "frag" THEN value ELSE Parameter(value, Undef)

\* what the Whereable branch compiles on the right of ` = `
whereableValueExpression(columnValue) ==
  IF columnValue.t = "parent" THEN columnValue ELSE Parameter(columnValue, Undef)

RECURSIVE compile(_, _, _, _)
RECURSIVE compileExpression(_, _, _, _, _)
RECURSIVE compileLiterals(_, _, _, _, _)
RECURSIVE compileArray(_, _, _, _, _, _)
RECURSIVE compileColumnNames(_, _, _, _)
RECURSIVE compileValuesArray(_, _, _, _, _)
RECURSIVE compileValuesObject(_, _, _, _, _, _)
RECURSIVE compileWhereable(_, _, _, _, _, _)

compile(this, result, parentTableArg, currentColumn) ==
  LET parentTable == IF Truthy(this.parentTable) THEN this.parentTable ELSE parentTableArg
      r1 == IF this.noop
            THEN appendText(result, <<"/* marked no-op: won't hit DB unless forced -> */ ">>)
            ELSE result
      r2 == appendText(r1, this.literals[1])
      r3 == compileLiterals(this, 2, r2, parentTable, currentColumn)
  IN IF r3.err # "" THEN r3
     ELSE IF this.preparedName.t \notin {"undef", "null"}
     THEN [r3 EXCEPT !.name = this.preparedName]
     ELSE r3

\* the for loop of compile, from literal i on (1-based)
compileLiterals(this, i, result, parentTable, currentColumn) ==
  IF result.err # "" \/ i > Len(this.literals) THEN result
  ELSE compileLiterals(this, i + 1,
         appendText(compileExpression(this, this.expressions[i - 1], result, parentTable, currentColumn),
                    this.literals[i]),
         parentTable, currentColumn)

\* the for loop of the Array.isArray branch
compileArray(this, expression, i, result, parentTable, currentColumn) ==
  IF result.err # "" \/ i > Len(expression.a) THEN result
  ELSE IF ~Truthy(expression.a[i]) THEN throw(result, "AssertionError")
  ELSE compileArray(this, expression, i + 1,
         compileExpression(this, expression.a[i], result, parentTable, currentColumn),
         parentTable, currentColumn)

\* the for loop of the ColumnNames branch
compileColumnNames(this, columnNames, i, result) ==
  IF result.err # "" \/ i > Len(columnNames) THEN result
  ELSE compileColumnNames(this, columnNames, i + 1,
         compileExpression(this, Str(columnNames[i]),
                           IF i > 1 THEN appendText(result, <<", ">>) ELSE result, Undef, Undef))

\* the for loop of the ColumnValues branch, array form
compileValuesArray(this, values, i, result, parentTable) ==
  IF result.err # "" \/ i > Len(values) THEN result
  ELSE compileValuesArray(this, values, i + 1,
         compileExpression(this, arrayValueExpression(values[i]),
                           IF i > 1 THEN appendText(result, <<", ">>) ELSE result, parentTable, Undef),
         parentTable)

\* the for loop of the ColumnValues branch, object form
compileValuesObject(this, value, columnNames, i, result, parentTable) ==
  IF result.err # "" \/ i > Len(columnNames) THEN result
  ELSE compileValuesObject(this, value, columnNames, i + 1,
         compileExpression(this, columnValueExpression(Get(value, columnNames[i])),
                           IF i > 1 THEN appendText(result, <<", ">>) ELSE result,
                           parentTable, Str(columnNames[i])),
         parentTable)

\* the for loop of the Whereable branch
compileWhereable(this, expression, columnNames, i, result, parentTable) ==
  IF result.err # "" \/ i > Len(columnNames) THEN result
  ELSE LET columnName == Str(columnNames[i])
           columnValue == Get(expression, columnNames[i])
           r0 == IF i > 1 THEN appendText(result, <<" AND ">>) ELSE result
           r1 == IF columnValue.t = "frag"
                 THEN appendText(compileExpression(this, columnValue, appendText(r0, <<"(">>),
                                                   parentTable, columnName), <<")">>)
                 ELSE compileExpression(this, whereableValueExpression(columnValue),
                        appendText(compileExpression(this, columnName, r0, Undef, Undef), <<" = ">>),
                        parentTable, columnName)
       IN compileWhereable(this, expression, columnNames, i + 1, r1, parentTable)

compileExpression(this, expression, result, parentTableArg, currentColumn) ==
  LET parentTable == IF Truthy(this.parentTable) THEN this.parentTable ELSE parentTableArg
  IN IF result.err # "" THEN result
     ELSE CASE expression.t = "frag" -> compile(expression, result, parentTable, currentColumn)
       [] expression.t = "str" -> appendText(result, compileString(expression.s))
       [] expression.t = "raw" -> appendText(result, expression.value)
       [] expression.t = "arr" -> compileArray(this, expression, 1, result, parentTable, currentColumn)
       [] expression.t = "param" -> compileParameter(expression, result)
       [] expression.t = "Default" -> appendText(result, <<"DEFAULT">>)
       [] expression.t = "self" ->
            IF ~Truthy(currentColumn)
            THEN throw(result, "The 'self' column alias has no meaning here")
            ELSE compileExpression(this, currentColumn, result, Undef, Undef)
       [] expression.t = "parent" ->
            IF ~Truthy(parentTable)
            THEN throw(result, "The 'parent' table alias has no meaning here")
            ELSE LET r1 == appendText(compileExpression(this, parentTable, result, Undef, Undef), <<".">>)
                     col == IF expression.value.t \in {"undef", "null"} THEN currentColumn
                            ELSE expression.value
                 IN compileExpression(this, col, r1, Undef, Undef)
       [] expression.t = "cols" ->
            compileColumnNames(this, columnNamesOf(expression.value), 1, result)
       [] expression.t = "vals" ->
            IF expression.value.t = "arr"
            THEN compileValuesArray(this, expression.value.a, 1, result, parentTable)
            ELSE compileValuesObject(this, expression.value, columnNamesOf(expression.value), 1,
                                     result, parentTable)
       [] expression.t = "null" -> throw(result, "TypeError")  \* Object.keys(null)
       [] expression.t \in {"obj", "inst"} ->
            LET columnNames == whereableKeys(expression)
            IN IF Len(columnNames) > 0
               THEN appendText(compileWhereable(this, expression, columnNames, 1,
                                                appendText(result, <<"(">>), parentTable), <<")">>)
               ELSE appendText(result, <<"TRUE">>)
       [] OTHER -> throw(result, "Alien object while interpolating Sql")

copyShared(this, override) == this

\* SqlFragment.copy: override is a record holding the overridden properties only
copy(this, override) ==
  LET literals == IF "literals" \in DOMAIN override /\ override.literals.t # "undef"
                  THEN override.literals ELSE this.literals
      expressions == IF "expressions" \in DOMAIN override /\ override.expressions.t # "undef"
                     THEN override.expressions ELSE this.expressions
      rest(name) == IF name \in DOMAIN override THEN override[name] ELSE this[name]
  IN [SqlFragment(literals, expressions) EXCEPT
        !.parentTable = rest("parentTable"),
        !.preparedName = rest("preparedName"),
        !.noop = rest("noop"),
        !.noopResult = rest("noopResult")]

-----------------------------------------------------------------------------
(* src/db/utils.ts *)

\* the result is a JavaScript array: the mapped values with the separator between them
Members(arr) == {arr[i] : i \in 1..Len(arr)}

\* callback is given as the function from the members of arr to its results
mapWithSeparator(arr, separator, callback) ==
  [i \in 1..(IF Len(arr) = 0 THEN 0 ELSE 2 * Len(arr) - 1) |->
     IF i % 2 = 1 THEN callback[arr[(i + 1) \div 2]] ELSE separator]

\* Object.assign(target, source): every own key of source, undefined values included
RECURSIVE ObjectAssign(_, _)
ObjectAssign(target, kv) ==
  IF kv = <<>> THEN target
  ELSE ObjectAssign(Put(target, Head(kv).k, Head(kv).v), Tail(kv))

RECURSIVE ObjectAssignAll(_, _)
ObjectAssignAll(target, objs) ==
  IF objs = <<>> THEN target
  ELSE ObjectAssignAll(ObjectAssign(target, Head(objs).kv), Tail(objs))

\* the keys of obj whose value is not undefined, copied over record
RECURSIVE AssignDefined(_, _)
AssignDefined(record, kv) ==
  IF kv = <<>> THEN record
  ELSE AssignDefined(IF Head(kv).v.t = "undef" THEN record
                     ELSE Put(record, Head(kv).k, Head(kv).v), Tail(kv))

completeKeysWithDefaultValueUnfilled(objs, defaultValue) == objs

completeKeysWithDefaultValue(objs, defaultValue) ==
  LET assigned == ObjectAssignAll(Obj(<<>>), objs)
      unionKeys == Obj([i \in 1..Len(assigned.kv) |-> [k |-> assigned.kv[i].k, v |-> defaultValue]])
  IN [i \in 1..Len(objs) |-> AssignDefined(unionKeys, objs[i].kv)]

\* builds a record of the defined keys and returns the object it was given
completeKeysWithDefaultValueObject(obj, defaultValue) ==
  LET defined == SelectSeq(obj.kv, LAMBDA e : e.v.t # "undef")
      record == Obj([i \in 1..Len(defined) |-> [k |-> defined[i].k, v |-> defaultValue]])
  IN obj

-----------------------------------------------------------------------------
(* The shortcut builders *)

\* an omitted options argument: every option undefined
NoOptions ==
  [returning |-> Undef, extras |-> Undef,
   updateValues |-> Undef, updateColumns |-> Undef, noNullUpdateColumns |-> Undef,
   reportAction |-> Undef,
   distinct |-> Undef, order |-> Undef, limit |-> Undef, offset |-> Undef, withTies |-> Undef,
   columns |-> Undef, groupBy |-> Undef, having |-> Undef, lateral |-> Undef, alias |-> Undef,
   lock |-> Undef]

SqlForColumnsOfTable(columns, table) ==
  IF columns.t = "undef"
  THEN sql(<< <<"to_jsonb(">>, <<".*)">> >>, <<table>>)
  ELSE sql(<< <<"jsonb_build_object(">>, <<")">> >>,
           << Arr(mapWithSeparator(columns.a, sql(<< <<", ">> >>, <<>>),
                    [c \in Members(columns.a) |-> sql(<< <<>>, <<"::text, ">>, <<>> >>, <<param(c, Undef), c>>)])) >>)

\* the keys of the extras map, in the order the builder lists them
extrasKeys(extras) == ObjectKeys(extras)

SqlForExtras(extras) ==
  IF extras.t = "undef" THEN Arr(<<>>)
  ELSE sql(<< <<" || jsonb_build_object(">>, <<")">> >>,
           << Arr(mapWithSeparator(extrasKeys(extras), sql(<< <<", ">> >>, <<>>),
                    [k \in Members(extrasKeys(extras)) |-> sql(<< <<>>, <<"::text, ">>, <<>> >>,
                                   <<param(Str(k), Undef), Get(extras, k)>>)])) >>)

insert(table, values, options) ==
  LET isArray == values.t = "arr"
      query ==
        IF isArray /\ Len(values.a) = 0
        THEN [sql(<< <<"INSERT INTO ">>, <<" SELECT null WHERE false">> >>, <<table>>)
                EXCEPT !.noop = TRUE, !.noopResult = Arr(<<>>)]
        ELSE LET completedValues == IF isArray THEN Arr(completeKeysWithDefaultValue(values.a, Default))
                                    ELSE completeKeysWithDefaultValueObject(values, Default)
                 colsSql == cols(IF isArray THEN completedValues.a[1] ELSE completedValues)
                 row(v) == sql(<< <<"(">>, <<")">> >>, <<vals(v)>>)
                 valuesSql == IF isArray
                              THEN Arr(mapWithSeparator(completedValues.a, sql(<< <<", ">> >>, <<>>), [v \in Members(completedValues.a) |-> row(v)]))
                              ELSE row(completedValues)
                 returningSql == SqlForColumnsOfTable(options.returning, table)
                 extrasSql == SqlForExtras(options.extras)
             IN sql(<< <<"INSERT INTO ">>, <<" (">>, <<") VALUES ">>, <<" RETURNING ">>, <<>>, <<" AS result">> >>,
                    <<table, colsSql, valuesSql, returningSql, extrasSql>>)
  IN [query EXCEPT !.runResultTransform = IF isArray THEN "rowsMapResult" ELSE "row0Result"]

Constraint(value) == [t |-> "constraint", value |-> value]
constraint(x) == Constraint(x)

RECURSIVE dedupe(_)
dedupe(seq) ==
  IF seq = <<>> THEN <<>>
  ELSE LET init == dedupe(SubSeq(seq, 1, Len(seq) - 1))
           last == seq[Len(seq)]
       IN IF \E i \in 1..Len(init) : init[i] = last THEN init ELSE Append(init, last)

\* the update column set without the Set: repeated columns stay
upsertUpdateColumnsRepeated(specifiedUpdateColumns, colNames, updateValues) ==
  (IF specifiedUpdateColumns.t = "undef" THEN colNames
   ELSE [i \in 1..Len(specifiedUpdateColumns.a) |-> specifiedUpdateColumns.a[i].s])
  \o ObjectKeys(updateValues)

\* upsert's update column set: Array.from(new Set([...(specifiedUpdateColumns ?? colNames), ...keys(updateValues)]))
upsertUpdateColumns(specifiedUpdateColumns, colNames, updateValues) ==
  dedupe((IF specifiedUpdateColumns.t = "undef" THEN colNames
          ELSE [i \in 1..Len(specifiedUpdateColumns.a) |-> specifiedUpdateColumns.a[i].s])
         \o ObjectKeys(updateValues))

\* the callback without the no-null test
upsertUpdateValuePlain(c, table, updateValues, noNullUpdateColumns) ==
  sql(<< <<"EXCLUDED.">>, <<>> >>, <<Str(c)>>)

\* the callback that renders the update value of column c
upsertUpdateValue(c, table, updateValues, noNullUpdateColumns) ==
  IF noNullUpdateColumns.t = "all" \/ \E i \in 1..Len(noNullUpdateColumns.a) : noNullUpdateColumns.a[i] = Str(c)
  THEN sql(<< <<"CASE WHEN EXCLUDED.">>, <<" IS NULL THEN ">>, <<".">>, <<" ELSE EXCLUDED.">>, <<" END">> >>,
           <<Str(c), table, Str(c), Str(c)>>)
  ELSE sql(<< <<"EXCLUDED.">>, <<>> >>, <<Str(c)>>)

upsert(table, values, conflictTargetArg, options) ==
  IF values.t = "arr" /\ Len(values.a) = 0 THEN insert(table, values, NoOptions)
  ELSE
  LET conflictTarget == IF conflictTargetArg.t = "str" THEN Arr(<<conflictTargetArg>>) ELSE conflictTargetArg
      nn0 == IF options.noNullUpdateColumns.t \in {"undef", "null"} THEN Arr(<<>>)
             ELSE options.noNullUpdateColumns
      noNullUpdateColumns == IF nn0.t # "all" /\ nn0.t # "arr" THEN Arr(<<nn0>>) ELSE nn0
      su0 == options.updateColumns
      specifiedUpdateColumns == IF Truthy(su0) /\ su0.t # "arr" THEN Arr(<<su0>>) ELSE su0
      completedValues == IF values.t = "arr" THEN completeKeysWithDefaultValue(values.a, Default)
                         ELSE <<values>>
      firstRow == completedValues[1]
      insertColsSql == cols(firstRow)
      insertValuesSql == mapWithSeparator(completedValues, sql(<< <<", ">> >>, <<>>),
                                          [v \in Members(completedValues) |-> sql(<< <<"(">>, <<")">> >>, <<vals(v)>>)])
      colNames == ObjectKeys(firstRow)
      updateValues == IF options.updateValues.t \in {"undef", "null"} THEN Obj(<<>>)
                      ELSE options.updateValues
      updateColumns == upsertUpdateColumns(specifiedUpdateColumns, colNames, updateValues)
      conflictTargetSql ==
        IF conflictTarget.t = "arr"
        THEN sql(<< <<"(">>, <<")">> >>,
                 <<Arr(mapWithSeparator(conflictTarget.a, sql(<< <<", ">> >>, <<>>), [c \in Members(conflictTarget.a) |-> c]))>>)
        ELSE sql(<< <<"ON CONSTRAINT ">>, <<>> >>, <<conflictTarget.value>>)
      updateColsSql == mapWithSeparator(updateColumns, sql(<< <<", ">> >>, <<>>), [c \in Members(updateColumns) |-> Str(c)])
      updateValuesSql == mapWithSeparator(updateColumns, sql(<< <<", ">> >>, <<>>),
                           [c \in Members(updateColumns) |-> upsertUpdateValue(c, table, updateValues, noNullUpdateColumns)])
      returningSql == SqlForColumnsOfTable(options.returning, table)
      extrasSql == SqlForExtras(options.extras)
      suppressReport == options.reportAction = Str(<<"suppress">>)
      insertPart == sql(<< <<"INSERT INTO ">>, <<" (">>, <<") VALUES ">>, <<>> >>,
                        <<table, insertColsSql, Arr(insertValuesSql)>>)
      conflictPart == sql(<< <<"ON CONFLICT ">>, <<" DO">> >>, <<conflictTargetSql>>)
      conflictActionPart ==
        IF Len(updateColsSql) > 0
        THEN sql(<< <<"UPDATE SET (">>, <<") = ROW(">>, <<")">> >>, <<Arr(updateColsSql), Arr(updateValuesSql)>>)
        ELSE sql(<< <<"NOTHING">> >>, <<>>)
      reportPart == sql(<< <<" || jsonb_build_object('$action', CASE xmax WHEN 0 THEN 'INSERT' ELSE 'UPDATE' END)">> >>, <<>>)
      returningPart == sql(<< <<"RETURNING ">>, <<>>, <<>>, <<" AS result">> >>,
                           <<returningSql, extrasSql, IF suppressReport THEN Arr(<<>>) ELSE reportPart>>)
      query == sql(<< <<>>, <<" ">>, <<" ">>, <<" ">>, <<>> >>,
                   <<insertPart, conflictPart, conflictActionPart, returningPart>>)
  IN [query EXCEPT !.runResultTransform = IF values.t = "arr" THEN "rowsMapResult" ELSE "row0OptResult"]

update(table, values, where, options) ==
  LET returningSql == SqlForColumnsOfTable(options.returning, table)
      extrasSql == SqlForExtras(options.extras)
      query == sql(<< <<"UPDATE ">>, <<" SET (">>, <<") = ROW(">>, <<") WHERE ">>, <<" RETURNING ">>, <<>>,
                      <<" AS result">> >>,
                   <<table, cols(values), vals(values), where, returningSql, extrasSql>>)
  IN [query EXCEPT !.runResultTransform = "rowsMapResult"]

deletes(table, where, options) ==
  LET returningSql == SqlForColumnsOfTable(options.returning, table)
      extrasSql == SqlForExtras(options.extras)
      query == sql(<< <<"DELETE FROM ">>, <<" WHERE ">>, <<" RETURNING ">>, <<>>, <<" AS result">> >>,
                   <<table, where, returningSql, extrasSql>>)
  IN [query EXCEPT !.runResultTransform = "rowsMapResult"]

\* opts is the rest parameter: a sequence of strings
truncate(tableArg, opts) ==
  LET table == IF tableArg.t # "arr" THEN <<tableArg>> ELSE tableArg.a
      tables == mapWithSeparator(table, sql(<< <<", ">> >>, <<>>), [t \in Members(table) |-> t])
  IN sql(<< <<"TRUNCATE ">>, <<>>, <<>> >>,
         <<Arr(tables), raw((IF Len(opts) > 0 THEN <<" ">> ELSE <<>>) \o join(opts, <<" ">>))>>)

\* an order spec { by, direction, nulls? } and a locking option { for, of?, wait? }
OrderSpec(by, direction, nulls) == [t |-> "order", by |-> by, direction |-> direction, nulls |-> nulls]
LockOption(for, of, wait) == [t |-> "lock", for |-> for, of |-> of, wait |-> wait]

Thrown(message) == [t |-> "thrown", message |-> message]

\* the check the orderSql callback makes of every order spec before building
orderError(order) ==
  IF order.t = "undef" THEN ""
  ELSE IF \E i \in 1..Len(order.a) : order.a[i].direction \notin {<<"ASC">>, <<"DESC">>}
       THEN "Direction must be ASC/DESC"
  ELSE IF \E i \in 1..Len(order.a) :
            Truthy(order.a[i].nulls) /\ order.a[i].nulls.s \notin {<<"FIRST">>, <<"LAST">>}
       THEN "Nulls must be FIRST/LAST/undefined"
  ELSE ""

\* the rows query left as it is
selectManyQueryUnwrapped(rowsQuery, alias) == rowsQuery

\* the aggregate sits in a sub-SELECT to keep ORDER and LIMIT working as usual
selectManyQuery(rowsQuery, alias) ==
  sql(<< <<"SELECT coalesce(jsonb_agg(result), '[]') AS result FROM (">>, <<") AS ">>, <<>> >>,
      <<rowsQuery, raw(<<"\"sq_">> \o alias.s \o <<Q>>)>>)

\* the lateral keys as they were inserted
selectLateralKeysUnsorted(lateral) == ObjectKeys(lateral)

selectLateralKeys(lateral) == sort(ObjectKeys(lateral))

select(table, where, options, mode, aggregate) ==
  LET limit1 == mode = "One" \/ mode = "ExactlyOne"
      allOptions == IF limit1 THEN [options EXCEPT !.limit = Num(1)] ELSE options
      alias == IF Truthy(allOptions.alias) THEN allOptions.alias ELSE table
      distinct == allOptions.distinct
      groupBy == allOptions.groupBy
      having == allOptions.having
      lateral == allOptions.lateral
      columns == allOptions.columns
      extras == allOptions.extras
      lock == IF allOptions.lock.t \in {"undef", "arr"} THEN allOptions.lock ELSE Arr(<<allOptions.lock>>)
      order == IF allOptions.order.t \in {"undef", "arr"} THEN allOptions.order ELSE Arr(<<allOptions.order>>)
      tableAliasSql == IF alias = table THEN Arr(<<>>) ELSE sql(<< <<" AS ">>, <<>> >>, <<alias>>)
      distinctSql ==
        IF ~Truthy(distinct) THEN Arr(<<>>)
        ELSE sql(<< <<" DISTINCT">>, <<>> >>,
                 << IF distinct.t \in {"frag", "str"} THEN sql(<< <<" ON (">>, <<")">> >>, <<distinct>>)
                    ELSE IF distinct.t = "arr" THEN sql(<< <<" ON (">>, <<")">> >>, <<cols(distinct)>>)
                    ELSE Arr(<<>>) >>)
      colsSql ==
        IF lateral.t = "frag" THEN Arr(<<>>)
        ELSE IF mode = "Numeric"
        THEN IF Truthy(columns)
             THEN sql(<< <<>>, <<"(">>, <<")">> >>, <<raw(aggregate), cols(columns)>>)
             ELSE sql(<< <<>>, <<"(*)">> >>, <<raw(aggregate)>>)
        ELSE SqlForColumnsOfTable(columns, alias)
      colsExtraSql == IF lateral.t = "frag" \/ mode = "Numeric" THEN Arr(<<>>) ELSE SqlForExtras(extras)
      colsLateralSql ==
        IF lateral.t = "undef" \/ mode = "Numeric" THEN Arr(<<>>)
        ELSE IF lateral.t = "frag" THEN sql(<< <<"\"lateral_passthru\".result">> >>, <<>>)
        ELSE sql(<< <<" || jsonb_build_object(">>, <<")">> >>,
                 << Arr(mapWithSeparator(selectLateralKeys(lateral), sql(<< <<", ">> >>, <<>>),
                          [k \in Members(selectLateralKeys(lateral)) |-> sql(<< <<>>, <<"::text, \"lateral_">>, <<"\".result">> >>,
                                         <<param(Str(k), Undef), raw(k)>>)])) >>)
      allColsSql == sql(<< <<>>, <<>>, <<>>, <<>> >>, <<colsSql, colsExtraSql, colsLateralSql>>)
      whereSql == IF where.t = "all" THEN Arr(<<>>) ELSE sql(<< <<" WHERE ">>, <<>> >>, <<where>>)
      groupBySql ==
        IF ~Truthy(groupBy) THEN Arr(<<>>)
        ELSE sql(<< <<" GROUP BY ">>, <<>> >>,
                 << IF groupBy.t \in {"frag", "str"} THEN groupBy ELSE cols(groupBy) >>)
      havingSql == IF ~Truthy(having) THEN Arr(<<>>) ELSE sql(<< <<" HAVING ">>, <<>> >>, <<having>>)
      orderSql ==
        IF order.t = "undef" THEN Arr(<<>>)
        ELSE sql(<< <<" ORDER BY ">>, <<>> >>,
                 << Arr(mapWithSeparator(order.a, sql(<< <<", ">> >>, <<>>),
                          [o \in Members(order.a) |-> sql(<< <<>>, <<" ">>, <<>>, <<>> >>,
                                         <<o.by, raw(o.direction),
                                           IF Truthy(o.nulls)
                                           THEN sql(<< <<" NULLS ">>, <<>> >>, <<raw(o.nulls.s)>>)
                                           ELSE Arr(<<>>)>>)])) >>)
      limitSql ==
        IF allOptions.limit.t = "undef" THEN Arr(<<>>)
        ELSE IF Truthy(allOptions.withTies)
        THEN sql(<< <<" FETCH FIRST ">>, <<" ROWS WITH TIES">> >>, <<param(allOptions.limit, Undef)>>)
        ELSE sql(<< <<" LIMIT ">>, <<>> >>, <<param(allOptions.limit, Undef)>>)
      offsetSql ==
        IF allOptions.offset.t = "undef" THEN Arr(<<>>)
        ELSE sql(<< <<" OFFSET ">>, <<>> >>, <<param(allOptions.offset, Undef)>>)
      lockSql ==
        IF lock.t = "undef" THEN Arr(<<>>)
        ELSE Arr([i \in 1..Len(lock.a) |->
               LET l == lock.a[i]
                   ofTables == IF l.of.t \in {"undef", "arr"} THEN l.of ELSE Arr(<<l.of>>)
                   ofClause == IF ofTables.t = "undef" THEN Arr(<<>>)
                               ELSE sql(<< <<" OF ">>, <<>> >>,
                                        <<Arr(mapWithSeparator(ofTables.a, sql(<< <<", ">> >>, <<>>),
                                                               [t \in Members(ofTables.a) |-> t]))>>)
               IN sql(<< <<" FOR ">>, <<>>, <<>>, <<>> >>,
                      <<raw(l.for), ofClause,
                        IF Truthy(l.wait) THEN sql(<< <<" ">>, <<>> >>, <<raw(l.wait.s)>>) ELSE Arr(<<>>)>>)])
      lateralSql ==
        IF lateral.t = "undef" THEN Arr(<<>>)
        ELSE IF lateral.t = "frag"
        THEN sql(<< <<" LEFT JOIN LATERAL (">>, <<") AS \"lateral_passthru\" ON true">> >>,
                 <<copy(lateral, [parentTable |-> alias])>>)
        ELSE LET keys == selectLateralKeys(lateral)
             IN Arr([i \in 1..Len(keys) |->
                  LET subQ == copy(Get(lateral, keys[i]), [parentTable |-> alias])
                  IN sql(<< <<" LEFT JOIN LATERAL (">>, <<") AS \"lateral_">>, <<"\" ON true">> >>,
                         <<subQ, raw(keys[i])>>)])
      rowsQuery == sql(<< <<"SELECT">>, <<" ">>, <<" AS result FROM ">>,
                          <<>>, <<>>, <<>>, <<>>, <<>>, <<>>, <<>>, <<>>, <<>>, <<>> >>,
                       <<distinctSql, allColsSql, table, tableAliasSql, lateralSql, whereSql, groupBySql,
                         havingSql, orderSql, limitSql, offsetSql, lockSql>>)
      query == IF mode # "Many" THEN rowsQuery ELSE selectManyQuery(rowsQuery, alias)
  IN IF orderError(order) # "" THEN Thrown(orderError(order))
     ELSE [query EXCEPT !.runResultTransform =
             IF mode = "Numeric" THEN "numeric"
             ELSE IF mode = "ExactlyOne" THEN "exactlyOne"
             ELSE "row0OptResult"]

selectOne(table, where, options) == select(table, where, options, "One", <<"count">>)

selectExactlyOne(table, where, options) == select(table, where, options, "ExactlyOne", <<"count">>)

count(table, where, options) == select(table, where, options, "Numeric", <<"count">>)

sum(table, where, options) == select(table, where, options, "Numeric", <<"sum">>)

avg(table, where, options) == select(table, where, options, "Numeric", <<"avg">>)

min(table, where, options) == select(table, where, options, "Numeric", <<"min">>)

max(table, where, options) == select(table, where, options, "Numeric", <<"max">>)

\* select, selectOne, selectExactlyOne, count, sum, avg, min, max
SelectBy(fn, table, where, options) ==
  CASE fn = "select" -> select(table, where, options, "Many", <<"count">>)
    [] fn = "selectOne" -> selectOne(table, where, options)
    [] fn = "selectExactlyOne" -> selectExactlyOne(table, where, options)
    [] fn = "count" -> count(table, where, options)
    [] fn = "sum" -> sum(table, where, options)
    [] fn = "avg" -> avg(table, where, options)
    [] fn = "min" -> min(table, where, options)
    [] fn = "max" -> max(table, where, options)

SelectFunctions == {"select", "selectOne", "selectExactlyOne", "count", "sum", "avg", "min", "max"}

-----------------------------------------------------------------------------
(* The caller's inputs *)

MaxRows == 2       \* rows in an array given to insert / upsert
MaxIdLen == 3      \* characters in an identifier interpolated in a template
MaxOpts == 2       \* options given to truncate

SeqsUpTo(S, n) == UNION {[1..m -> S] : m \in 0..n}

Injective(s) == \A i, j \in 1..Len(s) : i # j => s[i] # s[j]

\* every plain object with distinct keys from K, in every insertion order, with values from V
ObjectsOver(K, V) ==
  UNION {{Obj([i \in 1..Len(ks) |-> [k |-> ks[i], v |-> vs[i]]]) : vs \in [1..Len(ks) -> V]} :
         ks \in {s \in SeqsUpTo(K, Cardinality(K)) : Injective(s)}}

TableT == Str(<<"t">>)
ColA == <<"a">>
ColB == <<"b">>

\* a string of caller data: it must reach the database as a parameter only
DataString == Str(<<"x@y">>)

NowFragment == sql(<< <<"now()">> >>, <<>>)

DataValues == {Num(1), DataString, Null, Undef, Inst, Arr(<<Num(1)>>), Obj(<<[k |-> ColA, v |-> Num(1)]>>)}

Casts == {Undef, Bool(TRUE), Bool(FALSE), Str(<<"text">>)}

Parameters == {param(v, c) : v \in DataValues, c \in Casts}

\* what a caller puts under a key of a values object or predicate map
ColumnValueChoices == {Num(1), DataString, Undef, Default, param(Arr(<<Num(1)>>), Undef), NowFragment}

ValueObjects == ObjectsOver({ColA, ColB}, ColumnValueChoices)

\* small objects for the arguments that are combined with many options
RowObjects == ObjectsOver({ColA, ColB}, {Num(1), Undef})

\* the rows of an array: every key order, every key defined or undefined; the value
\* of a defined key tells its row and its column (row i, column a: 10 i + 1)
RowShapes == ObjectsOver({ColA, ColB}, {"defined", "undefined"})

RowOfShape(shape, i) ==
  Obj([j \in 1..Len(shape.kv) |->
         [k |-> shape.kv[j].k,
          v |-> IF shape.kv[j].v = "undefined" THEN Undef
                ELSE Num(10 * i + (IF shape.kv[j].k = ColA THEN 1 ELSE 2))]])

RowArrays ==
  {Arr([i \in 1..Len(shapes) |-> RowOfShape(shapes[i], i)]) : shapes \in SeqsUpTo(RowShapes, MaxRows)}

UpsertRows ==
  {Obj(<<[k |-> ColA, v |-> Num(1)], [k |-> ColB, v |-> Num(2)]>>),
   Obj(<<[k |-> ColB, v |-> Num(2)], [k |-> ColA, v |-> Num(1)]>>),
   Obj(<<[k |-> ColB, v |-> Undef]>>)}

UpsertArrays == {Arr(rows) : rows \in SeqsUpTo(UpsertRows, MaxRows)}

ConflictTargets == {Str(ColA), Arr(<<Str(ColB), Str(ColA)>>), constraint(Str(<<"t", "_", "a">>))}

UpsertOptionChoices ==
  {NoOptions,
   [NoOptions EXCEPT !.noNullUpdateColumns = all],
   [NoOptions EXCEPT !.noNullUpdateColumns = Str(ColB), !.reportAction = Str(<<"suppress">>)],
   [NoOptions EXCEPT !.noNullUpdateColumns = Arr(<<Str(ColB)>>)],
   [NoOptions EXCEPT !.updateColumns = Arr(<<>>)],
   [NoOptions EXCEPT !.updateColumns = Str(ColB), !.noNullUpdateColumns = Arr(<<Str(ColA), Str(ColB)>>)],
   [NoOptions EXCEPT !.updateValues = Obj(<<[k |-> ColB, v |-> Num(3)], [k |-> <<"u">>, v |-> Num(4)]>>)],
   [NoOptions EXCEPT !.updateColumns = Arr(<<Str(ColA)>>),
                     !.updateValues = Obj(<<[k |-> ColA, v |-> Num(3)]>>),
                     !.returning = Arr(<<Str(ColA)>>)]}

SelfFragment == sql(<< <<>>, <<" > ">>, <<>> >>, <<self, param(Num(0), Undef)>>)

\* the context sentinels, bare and inside a predicate map or a values object
SentinelChoices ==
  {self, parent(Undef), parent(Str(ColA)), SelfFragment,
   Obj(<<[k |-> ColB, v |-> SelfFragment]>>),
   Obj(<<[k |-> ColA, v |-> parent(Undef)]>>),
   Obj(<<[k |-> ColA, v |-> parent(Str(ColB))]>>),
   vals(Obj(<<[k |-> ColA, v |-> SelfFragment]>>)),
   vals(Arr(<<SelfFragment>>))}

WhereChoices == RowObjects \cup {SelfFragment, Obj(<<[k |-> ColA, v |-> SelfFragment]>>)}

TableU == Str(<<"u">>)

\* option strings: the identity and foreign-key options of TRUNCATE
TruncateOpts == {<<"RESTART IDENTITY">>, <<"CASCADE">>}

SelectWheres == {all, SelfFragment} \cup ObjectsOver({ColA, ColB}, {Num(1)})

\* a sub-query for the lateral option, correlated with its parent
SubQuery(fn, column) ==
  SelectBy(fn, TableU, Obj(<<[k |-> ColA, v |-> parent(column)]>>), NoOptions)

\* a sub-query that has a correlated sub-query of its own
NestedSubQuery ==
  SelectBy("select", TableU, Obj(<<[k |-> ColA, v |-> parent(Str(ColB))]>>),
           [NoOptions EXCEPT !.lateral = Obj(<<[k |-> ColA,
                                               v |-> SelectBy("selectOne", TableT,
                                                              Obj(<<[k |-> ColB, v |-> parent(Str(ColA))]>>),
                                                              NoOptions)]>>)])

SelectOptionChoices ==
  {NoOptions,
   [NoOptions EXCEPT !.columns = Arr(<<Str(ColB), Str(ColA)>>)],
   [NoOptions EXCEPT !.extras = Obj(<<[k |-> ColB, v |-> NowFragment]>>), !.alias = Str(<<"a", "B">>)],
   [NoOptions EXCEPT !.distinct = Bool(TRUE), !.limit = Num(5)],
   [NoOptions EXCEPT !.distinct = Str(ColA), !.limit = Num(5), !.offset = Num(2)],
   [NoOptions EXCEPT !.distinct = Arr(<<Str(ColA), Str(ColB)>>), !.limit = Num(5), !.withTies = Bool(TRUE)],
   [NoOptions EXCEPT !.order = OrderSpec(Str(ColA), <<"ASC">>, Undef), !.limit = Num(10)],
   [NoOptions EXCEPT !.order = Arr(<<OrderSpec(Str(ColA), <<"DESC">>, Str(<<"LAST">>)),
                                      OrderSpec(Str(ColB), <<"ASC">>, Undef)>>), !.offset = Num(2)],
   [NoOptions EXCEPT !.order = OrderSpec(Str(ColA), <<"UP">>, Undef)],
   [NoOptions EXCEPT !.order = OrderSpec(Str(ColA), <<"ASC">>, Str(<<"MIDDLE">>))],
   [NoOptions EXCEPT !.groupBy = Str(ColA), !.having = Obj(<<[k |-> ColA, v |-> Num(1)]>>)],
   [NoOptions EXCEPT !.groupBy = Arr(<<Str(ColA), Str(ColB)>>), !.having = SelfFragment],
   [NoOptions EXCEPT !.lock = LockOption(<<"UPDATE">>, Undef, Undef)],
   [NoOptions EXCEPT !.lock = Arr(<<LockOption(<<"SHARE">>, Str(ColA), Str(<<"NOWAIT">>)),
                                     LockOption(<<"KEY SHARE">>, Arr(<<Str(ColA), Str(ColB)>>),
                                                Str(<<"SKIP LOCKED">>))>>)],
   [NoOptions EXCEPT !.alias = Str(ColA), !.lateral = SubQuery("selectOne", Str(ColB))],
   [NoOptions EXCEPT !.lateral = Obj(<<[k |-> ColB, v |-> SubQuery("count", Undef)],
                                       [k |-> ColA, v |-> SubQuery("selectExactlyOne", Str(ColB))]>>)],
   [NoOptions EXCEPT !.alias = Str(<<"a", "B">>),
                     !.lateral = Obj(<<[k |-> ColB, v |-> NestedSubQuery],
                                       [k |-> ColA, v |-> SubQuery("selectOne", Str(ColB))]>>)]}

IdChars == {"a", "B", ".", Q}

Identifiers == SeqsUpTo(IdChars, MaxIdLen) \ {<<>>}

ReturningChoices ==
  {NoOptions,
   [NoOptions EXCEPT !.returning = Arr(<<Str(ColB), Str(ColA)>>)],
   [NoOptions EXCEPT !.extras = Obj(<<[k |-> ColB, v |-> NowFragment], [k |-> ColA, v |-> Str(ColA)]>>)]}

-----------------------------------------------------------------------------
(* The state machine: the caller builds a fragment, compiles it, runs it *)

NoCall == [fn |-> "none"]
Idle == [t |-> "idle"]
NoQueryable == [t |-> "none"]

\* a listener is not configured, returns, or throws
ConfigChoices(flags, listeners) ==
  [castArrayParamsToJson : flags, castObjectParamsToJson : flags,
   queryListener : listeners, resultListener : listeners]

InitWith(configs) ==
  /\ config \in configs
  /\ call = NoCall
  /\ frag = Undef
  /\ compiled = Undef
  /\ pc = "idle"
  /\ force = FALSE
  /\ queryable = NoQueryable
  /\ driver = Idle
  /\ events = <<>>
  /\ outcome = Idle
  /\ compiles = <<>>
  /\ preparedNameSeq = 0
  /\ preparedNames = <<>>
  /\ warnedAboutInt8AndNumeric = FALSE
  /\ tsCalls = <<>>

\* the caller holds a new fragment; nothing is compiled or run yet
Fresh ==
  /\ compiled' = Undef
  /\ pc' = "idle"
  /\ force' = FALSE
  /\ queryable' = NoQueryable
  /\ driver' = Idle
  /\ events' = <<>>
  /\ outcome' = Idle
  /\ compiles' = <<>>
  /\ UNCHANGED <<config, process>>

\* sql`${p}`
SqlParameter ==
  /\ call = NoCall
  /\ \E p \in Parameters :
         /\ Fresh
         /\ call' = [fn |-> "sql", kind |-> "param", arg |-> p]
         /\ frag' = sql(<< <<>>, <<>> >>, <<p>>)

\* sql`SELECT ${p}, ${[raw, q, sql`(${r})`]}`
SqlNested ==
  /\ call = NoCall
  /\ \E p \in Parameters, q \in {param(Num(1), Undef), param(Arr(<<Num(1)>>), Undef)},
          r \in {param(DataString, Undef), param(Null, Str(<<"text">>))} :
         /\ Fresh
         /\ call' = [fn |-> "sql", kind |-> "nested", arg |-> <<p, q, r>>]
         /\ frag' = sql(<< <<"SELECT ">>, <<", ">>, <<>> >>,
                    <<p, Arr(<<raw(<<"1 + ">>), q, sql(<< <<" (">>, <<")">> >>, <<r>>)>>)>>)

\* sql`${identifier}`
SqlIdentifier ==
  /\ call = NoCall
  /\ \E id \in Identifiers :
         /\ Fresh
         /\ call' = [fn |-> "sql", kind |-> "identifier", arg |-> Str(id)]
         /\ frag' = sql(<< <<>>, <<>> >>, <<Str(id)>>)

\* sql`${obj}`, sql`${cols(obj)}`, sql`${vals(obj)}`
SqlObject ==
  /\ call = NoCall
  /\ \E obj \in ValueObjects, kind \in {"where", "cols", "vals"} :
         /\ Fresh
         /\ call' = [fn |-> "sql", kind |-> kind, arg |-> obj]
         /\ frag' = sql(<< <<>>, <<>> >>,
                    << CASE kind = "where" -> obj [] kind = "cols" -> cols(obj) [] kind = "vals" -> vals(obj) >>)

\* sql`${self}`, sql`${parent()}`, sql`${parent('a')}` and objects that hold them
SqlSentinel ==
  /\ call = NoCall
  /\ \E x \in SentinelChoices :
         /\ Fresh
         /\ call' = [fn |-> "sql", kind |-> "sentinel", arg |-> x]
         /\ frag' = sql(<< <<>>, <<>> >>, <<x>>)

CallInsert ==
  /\ call = NoCall
  /\ \E values \in ValueObjects \cup RowArrays, options \in ReturningChoices :
         /\ Fresh
         /\ call' = [fn |-> "insert", table |-> TableT, values |-> values, options |-> options]
         /\ frag' = insert(TableT, values, options)

CallUpsert ==
  /\ call = NoCall
  /\ \E values \in RowObjects \cup UpsertArrays, conflictTarget \in ConflictTargets,
          options \in UpsertOptionChoices :
         /\ Fresh
         /\ call' = [fn |-> "upsert", table |-> TableT, values |-> values, conflictTarget |-> conflictTarget,
                    options |-> options]
         /\ frag' = upsert(TableT, values, conflictTarget, options)

CallUpdate ==
  /\ call = NoCall
  /\ \E values \in RowObjects, where \in WhereChoices :
         /\ Fresh
         /\ call' = [fn |-> "update", table |-> TableT, values |-> values, where |-> where, options |-> NoOptions]
         /\ frag' = update(TableT, values, where, NoOptions)

CallDeletes ==
  /\ call = NoCall
  /\ \E where \in ValueObjects \cup {SelfFragment}, options \in ReturningChoices :
         /\ Fresh
         /\ call' = [fn |-> "deletes", table |-> TableT, where |-> where, options |-> options]
         /\ frag' = deletes(TableT, where, options)

CallTruncate ==
  /\ call = NoCall
  /\ \E table \in {TableT, Arr(<<TableT, TableU>>)}, opts \in SeqsUpTo(TruncateOpts, MaxOpts) :
         /\ Fresh
         /\ call' = [fn |-> "truncate", table |-> table, opts |-> opts]
         /\ frag' = truncate(table, opts)

CallSelect ==
  /\ call = NoCall
  /\ \E fn \in SelectFunctions, where \in SelectWheres, options \in SelectOptionChoices :
         /\ Fresh
         /\ call' = [fn |-> fn, table |-> TableT, where |-> where, options |-> options]
         /\ frag' = SelectBy(fn, TableT, where, options)

\* the fragment a call returns
FragmentOf(c) ==
  CASE c.fn = "sql" /\ c.kind = "where" -> sql(<< <<>>, <<>> >>, <<c.arg>>)
    [] c.fn = "sql" /\ c.kind = "cols" -> sql(<< <<>>, <<>> >>, <<cols(c.arg)>>)
    [] c.fn = "sql" /\ c.kind = "vals" -> sql(<< <<>>, <<>> >>, <<vals(c.arg)>>)
    [] c.fn = "insert" -> insert(c.table, c.values, c.options)
    [] c.fn = "upsert" -> upsert(c.table, c.values, c.conflictTarget, c.options)
    [] c.fn = "update" -> update(c.table, c.values, c.where, c.options)
    [] c.fn = "deletes" -> deletes(c.table, c.where, c.options)
    [] c.fn \in SelectFunctions -> SelectBy(c.fn, c.table, c.where, c.options)

Compile ==
  /\ pc = "idle"
  /\ frag.t = "frag"
  /\ compiled = Undef
  /\ compiled' = compile(frag, StartState, Undef, Undef)
  /\ UNCHANGED <<config, call, frag, pc, force, queryable, driver, events, outcome, compiles, process>>

\* the caller lets go of the fragment and starts over
Reset ==
  /\ call # NoCall
  /\ pc \in {"idle", "done"}
  /\ call' = NoCall
  /\ frag' = Undef
  /\ compiled' = Undef
  /\ pc' = "idle"
  /\ force' = FALSE
  /\ queryable' = NoQueryable
  /\ driver' = Idle
  /\ events' = <<>>
  /\ outcome' = Idle
  /\ compiles' = <<>>
  /\ UNCHANGED <<config, process>>

Init == InitWith(ConfigChoices(BOOLEAN, {"none"}))

Next ==
  \/ SqlParameter
  \/ SqlNested
  \/ SqlIdentifier
  \/ SqlObject
  \/ SqlSentinel
  \/ CallInsert
  \/ CallUpsert
  \/ CallUpdate
  \/ CallDeletes
  \/ CallTruncate
  \/ CallSelect
  \/ Compile
  \/ Reset

Spec == Init /\ [][Next]_vars

-----------------------------------------------------------------------------
(* run: compile, tell the listeners, ask the driver unless the fragment is a no-op *)

\* es-toolkit's toCamelCaseKeys(): the keys of plain objects, through arrays
RECURSIVE toCamelCaseKeys(_)
toCamelCaseKeys(v) ==
  CASE v.t = "arr" -> Arr([i \in 1..Len(v.a) |-> toCamelCaseKeys(v.a[i])])
    [] v.t = "obj" -> Obj([i \in 1..Len(v.kv) |->
                             [k |-> camelCase(v.kv[i].k), v |-> toCamelCaseKeys(v.kv[i].v)]])
    [] OTHER -> v

ResultKey == <<"result">>

NaN == [t |-> "num", n |-> "NaN"]

DigitValue(c) ==
  CASE c = "0" -> 0 [] c = "1" -> 1 [] c = "2" -> 2 [] c = "3" -> 3 [] c = "4" -> 4
    [] c = "5" -> 5 [] c = "6" -> 6 [] c = "7" -> 7 [] c = "8" -> 8 [] c = "9" -> 9
    [] OTHER -> -1

RECURSIVE ParseDigits(_, _)
ParseDigits(str, acc) ==
  IF str = <<>> THEN acc ELSE ParseDigits(Tail(str), 10 * acc + DigitValue(Head(str)))

\* Number(value)
Number(v) ==
  CASE v.t = "num" -> v
    [] v.t = "null" -> Num(0)
    [] v.t = "str" /\ v.s = <<>> -> Num(0)
    [] v.t = "str" /\ \A i \in 1..Len(v.s) : DigitValue(v.s[i]) >= 0 -> Num(ParseDigits(v.s, 0))
    [] OTHER -> NaN

TypeError == Thrown("TypeError")
\* an error that names no query
NotExactlyOneErrorBare(query) == Thrown("One result expected but none returned")

\* new NotExactlyOneError(query, message): the error keeps the fragment it was given
NotExactlyOneError(query) ==
  [t |-> "thrown", name |-> "NotExactlyOneError", message |-> "One result expected but none returned",
   query |-> query]

\* this.runResultTransform(queryResult): a value, or what it throws
runResultTransform(this, rows) ==
  LET name == this.runResultTransform
  IN CASE name = "camelRows" -> toCamelCaseKeys(Arr(rows))
       [] name = "rowsMapResult" -> Arr([i \in 1..Len(rows) |-> Get(rows[i], ResultKey)])
       [] name = "row0Result" -> IF rows = <<>> THEN TypeError ELSE Get(rows[1], ResultKey)
       [] name = "row0OptResult" -> IF rows = <<>> THEN Undef ELSE Get(rows[1], ResultKey)
       [] name = "numeric" -> IF rows = <<>> THEN TypeError ELSE Number(Get(rows[1], ResultKey))
       [] name = "exactlyOne" ->
            LET result == IF rows = <<>> THEN Undef ELSE Get(rows[1], ResultKey)
            IN IF result = Undef THEN NotExactlyOneError(this) ELSE result

QueryListenerEvent(query, txnId) == [e |-> "queryListener", query |-> query, txnId |-> txnId]
QueryEvent(query) == [e |-> "query", query |-> query]
ResultListenerEvent(result, txnId, query) ==
  [e |-> "resultListener", result |-> result, txnId |-> txnId, query |-> query]

\* a queryable with or without the _dorjo slot; (queryable as any)._dorjo?.txnId
Queryable(txnId) == [t |-> "queryable", txnId |-> txnId]
Queryables == {Queryable(Undef), Queryable(Num(7))}

\* the driver has answered with these rows
Answered(rows) == [t |-> "answered", rows |-> rows]

Resolved(result) == [t |-> "resolved", result |-> result]
Rejected(error) == [t |-> "rejected", error |-> error]

\* the end of run without a word to the result listener
FinishUnheard(result, log, answer) ==
  /\ pc' = "done"
  /\ driver' = answer
  /\ events' = log
  /\ outcome' = Resolved(result)

\* the end of run: the result listener is told, the promise resolves
Finish(result, log, answer) ==
  /\ pc' = "done"
  /\ driver' = answer
  /\ IF config.resultListener = "none"
     THEN events' = log /\ outcome' = Resolved(result)
     ELSE /\ events' = Append(log, ResultListenerEvent(result, queryable'.txnId, compiled'))
          /\ outcome' = IF config.resultListener = "throws"
                        THEN Rejected(Thrown("resultListener")) ELSE Resolved(result)

\* a failure that is reported to the result listener all the same
FailHeard(error, log, answer) ==
  /\ pc' = "done"
  /\ driver' = answer
  /\ events' = IF config.resultListener = "none" THEN log
                ELSE Append(log, ResultListenerEvent(error, queryable'.txnId, compiled'))
  /\ outcome' = Rejected(error)

Fail(error, log, answer) ==
  /\ pc' = "done"
  /\ driver' = answer
  /\ events' = log
  /\ outcome' = Rejected(error)

bypassNever(this, forceArg) == TRUE

\* if (!this.noop || force): the query goes to the database
hitsDatabase(this, forceArg) == ~this.noop \/ forceArg

\* run(queryable, force) up to its await, or to its end when nothing is awaited
Run ==
  \E f \in BOOLEAN, q \in Queryables :
    /\ pc = "idle"
    /\ call # NoCall
    /\ frag.t = "frag"
    /\ compiled = Undef
    /\ force' = f
    /\ queryable' = q
    /\ UNCHANGED <<config, call, frag, compiles, process>>
    /\ LET query == compile(frag, StartState, Undef, Undef)
           heard == IF config.queryListener = "none" THEN events
                    ELSE Append(events, QueryListenerEvent(query, q.txnId))
       IN /\ compiled' = query
          /\ IF query.err # "" THEN Fail(Thrown(query.err), events, Idle)
             ELSE IF config.queryListener = "throws" THEN Fail(Thrown("queryListener"), heard, Idle)
             ELSE IF hitsDatabase(frag, f)
                  THEN /\ pc' = "awaiting"
                       /\ driver' = [t |-> "pending", query |-> query]
                       /\ events' = Append(heard, QueryEvent(query))
                       /\ outcome' = Idle
                  ELSE Finish(frag.noopResult, heard, Idle)

\* the rows a driver answers with: a result column, and another whose name has two words
DriverRowChoices ==
  {Obj(<<[k |-> ResultKey, v |-> Num(1)]>>),
   Obj(<<[k |-> ResultKey, v |-> Str(<<"1", "2">>)], [k |-> <<"a", "_", "b">>, v |-> Null]>>)}

\* queryable.query(query) resolves
QueryResolves ==
  \E rows \in SeqsUpTo(DriverRowChoices, MaxRows) :
    /\ pc = "awaiting"
    /\ UNCHANGED <<config, call, frag, compiled, force, queryable, compiles, process>>
    /\ LET result == runResultTransform(frag, rows)
       IN IF result.t = "thrown" THEN Fail(result, events, Answered(rows))
          ELSE Finish(result, events, Answered(rows))

\* what a driver rejects with
DriverErrors == {Thrown("connection terminated"), Thrown("syntax error")}

Refused(error) == [t |-> "refused", error |-> error]

\* queryable.query(query) rejects
QueryRejects ==
  \E error \in DriverErrors :
    /\ pc = "awaiting"
    /\ UNCHANGED <<config, call, frag, compiled, force, queryable, compiles, process>>
    /\ Fail(error, events, Refused(error))

\* the calls whose fragments are run
CallToRun ==
  /\ call = NoCall
  /\ \E c \in {[fn |-> "insert", table |-> TableT, values |-> Arr(<<>>), options |-> NoOptions],
                 [fn |-> "upsert", table |-> TableT, values |-> Arr(<<>>), conflictTarget |-> Str(ColA),
                  options |-> NoOptions],
                 [fn |-> "insert", table |-> TableT, values |-> Obj(<<[k |-> ColA, v |-> Num(1)]>>),
                  options |-> NoOptions],
                 [fn |-> "insert", table |-> TableT, values |-> Arr(<<Obj(<<[k |-> ColA, v |-> Num(1)]>>)>>),
                  options |-> NoOptions],
                 [fn |-> "upsert", table |-> TableT, values |-> Obj(<<[k |-> ColA, v |-> Num(1)]>>),
                  conflictTarget |-> Str(ColA), options |-> NoOptions],
                 [fn |-> "update", table |-> TableT, values |-> Obj(<<[k |-> ColA, v |-> Num(1)]>>),
                  where |-> all, options |-> NoOptions],
                 [fn |-> "deletes", table |-> TableT, where |-> all, options |-> NoOptions],
                 [fn |-> "sql", kind |-> "where", arg |-> Obj(<<[k |-> ColA, v |-> Num(1)]>>)],
                 [fn |-> "sql", kind |-> "cols", arg |-> Arr(<<Str(ColA)>>)]}
              \cup {[fn |-> fn, table |-> TableT, where |-> all, options |-> options] :
                      fn \in SelectFunctions,
                      options \in {NoOptions, [NoOptions EXCEPT !.order = OrderSpec(Str(ColA), <<"UP">>, Undef)]}} :
         /\ Fresh
         /\ call' = c
         /\ frag' = FragmentOf(c)

MaxCompiles == 2   \* further compilations of one fragment

compileOnto(this, last) == compile(this, last, Undef, Undef)

\* compile() called with no arguments: result defaults to a new { text: "", values: [] },
\* whatever an earlier call returned
compileAgain(this, last) == compile(this, StartState, Undef, Undef)

\* the fragment is compiled once more, after it was compiled or run
CompileAgain ==
  /\ call # NoCall
  /\ pc \in {"idle", "done"}
  /\ frag.t = "frag"
  /\ compiled # Undef
  /\ Len(compiles) < MaxCompiles
  /\ compiles' = Append(compiles, compileAgain(frag, compiled))
  /\ UNCHANGED <<config, call, frag, compiled, pc, force, queryable, driver, events, outcome, process>>

InitRun == InitWith(ConfigChoices({FALSE}, {"none", "ok", "throws"}))

NextRun ==
  \/ CallToRun
  \/ Run
  \/ QueryResolves
  \/ QueryRejects
  \/ CompileAgain
  \/ Reset

SpecRun == InitRun /\ [][NextRun]_vars

-----------------------------------------------------------------------------
(* What a caller does with a fragment it holds: prepared, copy, embedding it in
   another fragment, compiling it again *)

MaxPrepared == 3   \* calls of prepared() in one process
MaxOps == 2        \* copies and embeddings made from one built fragment

\* the template literal behind the default argument of prepared
defaultPreparedName(seq) == Str(<<"_dorjo_prepared_", ToString(seq)>>)

preparedNameSeqAlways(seq, name) == seq + 1

\* preparedNameSeq++ sits in the default argument: evaluated only when no name is passed
preparedNameSeqAfter(seq, name) == IF name = Undef THEN seq + 1 ELSE seq

\* SqlFragment.prepared: sets the name of this fragment and returns this fragment
prepared(this, name, seq) ==
  [this EXCEPT !.preparedName = IF name = Undef THEN defaultPreparedName(seq) ELSE name]

Ops(c) == IF "ops" \in DOMAIN c THEN c.ops ELSE 0

\* the caller holds a fragment that has not been compiled or run
Holding == call # NoCall /\ pc = "idle" /\ frag.t = "frag" /\ compiled = Undef

\* the name passed to prepared: none, or one of the caller's
PreparedNameChoices == {Undef, Str(<<"q">>)}

\* frag.prepared(name)
Prepared ==
  /\ Holding
  /\ Len(preparedNames) < MaxPrepared
  /\ \E name \in PreparedNameChoices :
       /\ frag' = prepared(frag, name, preparedNameSeq)
       /\ preparedNameSeq' = preparedNameSeqAfter(preparedNameSeq, name)
       /\ preparedNames' = Append(preparedNames,
                                  [arg |-> name, seq |-> preparedNameSeq,
                                   name |-> prepared(frag, name, preparedNameSeq).preparedName])
       /\ call' = [fn |-> "prepared", of |-> frag, name |-> name, ops |-> Ops(call)]
       /\ UNCHANGED <<config, compiled, pc, force, queryable, driver, events, outcome, compiles,
                      warnedAboutInt8AndNumeric, tsCalls>>

\* the properties a caller overrides in copy: none, the parent table, the no-op pair
CopyOverrides ==
  {<<>>,
   [parentTable |-> Str(ColB)],
   [noop |-> TRUE, noopResult |-> Arr(<<>>)]}

\* frag.copy(override): the caller goes on with the copy
CopyFragment ==
  /\ Holding
  /\ Ops(call) < MaxOps
  /\ \E override \in CopyOverrides :
       /\ frag' = copy(frag, override)
       /\ call' = [fn |-> "copy", of |-> frag, override |-> override, ops |-> Ops(call) + 1]
       /\ UNCHANGED <<config, compiled, pc, force, queryable, driver, events, outcome, compiles, process>>

\* the fragment that embeds x: interpolated in a template, or as a lateral sub-query of select
Embedding(in, x) ==
  CASE in = "template" -> sql(<< <<"SELECT * FROM (">>, <<") AS s">> >>, <<x>>)
    [] in = "lateral" ->
         SelectBy("select", TableT, all, [NoOptions EXCEPT !.lateral = Obj(<<[k |-> ColA, v |-> x]>>)])

\* the caller interpolates the fragment in another one and goes on with that one
Embed ==
  /\ Holding
  /\ Ops(call) < MaxOps
  /\ \E in \in {"template", "lateral"} :
       /\ frag' = Embedding(in, frag)
       /\ call' = [fn |-> "embed", of |-> frag, in |-> in, ops |-> Ops(call) + 1]
       /\ UNCHANGED <<config, compiled, pc, force, queryable, driver, events, outcome, compiles, process>>

\* the calls whose fragments are prepared, copied and embedded: a no-op, shortcuts that
\* replace the result transform, a sub-query that refers to its parent, a template
CallToHold ==
  /\ call = NoCall
  /\ \E c \in {[fn |-> "insert", table |-> TableT, values |-> Arr(<<>>), options |-> NoOptions],
                 [fn |-> "select", table |-> TableT, where |-> all, options |-> NoOptions],
                 [fn |-> "selectOne", table |-> TableU,
                  where |-> Obj(<<[k |-> ColA, v |-> parent(Str(ColB))]>>), options |-> NoOptions],
                 [fn |-> "sql", kind |-> "where", arg |-> Obj(<<[k |-> ColA, v |-> Num(1)]>>)]} :
         /\ Fresh
         /\ call' = c
         /\ frag' = FragmentOf(c)

InitFragment == InitWith(ConfigChoices({FALSE}, {"none"}))

NextFragment ==
  \/ CallToHold
  \/ Prepared
  \/ CopyFragment
  \/ Embed
  \/ Compile
  \/ Reset

SpecFragment == InitFragment /\ [][NextFragment]_vars

-----------------------------------------------------------------------------
(* src/generate/pg-types.ts: the TypeScript type of a Postgres type, and the warning
   about large numbers *)

MaxTsCalls == 3    \* calls of tsTypeForPgType in one process

warnUnlatched(warned, generatorConfig) ==
  IF generatorConfig.customJsonParsingForLargeNumbers THEN [warned |-> warned, warn |-> FALSE]
  ELSE [warned |-> TRUE, warn |-> TRUE]

\* warnAboutLargeNumbers: the latch after the call, and whether warn was called
warnAboutLargeNumbers(warned, generatorConfig) ==
  IF warned \/ generatorConfig.customJsonParsingForLargeNumbers
  THEN [warned |-> warned, warn |-> FALSE]
  ELSE [warned |-> TRUE, warn |-> TRUE]

\* the type returned (null as Null, nothing as Undef), the latch, whether warn was called
baseTsTypeForBasePgType(pgType, enums, context, generatorConfig, warned) ==
  LET selected == context = "JsonSelectable" \/ context = "Selectable"
      quiet(tsType) == [tsType |-> tsType, warned |-> warned, warn |-> FALSE]
      large(tsType) == [tsType |-> tsType] @@ warnAboutLargeNumbers(warned, generatorConfig)
  IN CASE pgType = <<"money">> -> quiet(IF selected THEN Str(<<"string">>) ELSE Str(<<"(number | string)">>))
       [] pgType = <<"int8">> ->
            large(IF context = "JsonSelectable"
                  THEN (IF generatorConfig.customJsonParsingForLargeNumbers
                        THEN Str(<<"(number | db.Int8String)">>) ELSE Str(<<"number">>))
                  ELSE IF context = "Selectable" THEN Str(<<"db.Int8String">>)
                  ELSE Str(<<"(number | db.Int8String | bigint)">>))
       [] pgType = <<"numeric">> ->
            large(IF context = "JsonSelectable" THEN Undef
                  ELSE IF context = "Selectable" THEN Str(<<"db.NumericString">>)
                  ELSE Str(<<"(number | db.NumericString)">>))
       [] pgType = <<"bytea">> ->
            quiet(IF context = "JsonSelectable" THEN Str(<<"db.ByteArrayString">>)
                  ELSE IF context = "Selectable" THEN Str(<<"Buffer">>)
                  ELSE Str(<<"(db.ByteArrayString | Buffer)">>))
       [] pgType = <<"date">> ->
            quiet(IF context = "JsonSelectable" THEN Str(<<"db.DateString">>)
                  ELSE IF context = "Selectable" THEN Str(<<"Date">>)
                  ELSE Str(<<"(db.DateString | Date)">>))
       [] pgType = <<"bool">> -> quiet(Str(<<"boolean">>))
       [] pgType \in {<<"json">>, <<"jsonb">>} -> quiet(Str(<<"db.JsonValue">>))
       [] OTHER -> quiet(IF pgType \in enums THEN Str(pgType) ELSE Null)

tsTypeForPgType(pgType, enums, context, generatorConfig, warned) ==
  LET base == baseTsTypeForBasePgType(pgType, enums, context, generatorConfig, warned)
      array == baseTsTypeForBasePgType(Tail(pgType), enums, context, generatorConfig, base.warned)
  IN IF base.tsType # Null THEN base
     ELSE IF pgType # <<>> /\ Head(pgType) = "_"
     THEN (IF array.tsType # Null
           THEN [array EXCEPT !.tsType = Str((IF @ = Undef THEN <<"undefined">> ELSE @.s) \o <<"[]">>)]
           ELSE [array EXCEPT !.tsType = Str(<<"any">>)])
     ELSE [base EXCEPT !.tsType = Str(<<"any">>)]

\* the Postgres types asked about: large numbers, an array of them, an array of an enum
PgTypes == {<<"int8">>, <<"numeric">>, <<"_", "numeric">>, <<"_", "mood">>}

Enums == {<<"mood">>}

TypeContexts == {"JsonSelectable", "Insertable"}

\* the generator's configuration: the flag, and console.log as listener or none
GeneratorConfigs == [customJsonParsingForLargeNumbers : BOOLEAN, warningListener : {Bool(TRUE), Undef}]

\* the generator asks for the type of one column
TsTypeForPgType ==
  /\ Len(tsCalls) < MaxTsCalls
  /\ \E pgType \in PgTypes, context \in TypeContexts, generatorConfig \in GeneratorConfigs :
       /\ warnedAboutInt8AndNumeric' =
            tsTypeForPgType(pgType, Enums, context, generatorConfig, warnedAboutInt8AndNumeric).warned
       /\ tsCalls' = Append(tsCalls,
                            [pgType |-> pgType, context |-> context, config |-> generatorConfig]
                            @@ tsTypeForPgType(pgType, Enums, context, generatorConfig,
                                               warnedAboutInt8AndNumeric))
       /\ UNCHANGED <<config, call, frag, compiled, pc, force, queryable, driver, events, outcome,
                      compiles, preparedNameSeq, preparedNames>>

InitGenerate == InitWith(ConfigChoices({FALSE}, {"none"}))

NextGenerate == TsTypeForPgType

SpecGenerate == InitGenerate /\ [][NextGenerate]_vars

-----------------------------------------------------------------------------
(* Properties *)

Compiled == compiled # Undef /\ compiled.err = ""

Placeholder(k) == "$" \o ToString(k)

\* the pieces of text that are placeholders, left to right
PlaceholdersIn(text) ==
  SelectSeq(text, LAMBDA piece : \E k \in 0..(Len(text) + 1) : piece = Placeholder(k))

\* C1: in every compiled query the placeholders of text are exactly $1 .. $n,
\* left to right, with n = values.length, and the value written as $k is values[k-1]
C1_ParameterCountIdentity ==
  Compiled =>
    /\ PlaceholdersIn(compiled.text) = [k \in 1..Len(compiled.values) |-> Placeholder(k)]
    /\ Len(compiled.rendered) = Len(compiled.values)
    /\ \A k \in 1..Len(compiled.rendered) :
         /\ compiled.rendered[k].placeholder = Placeholder(k)
         /\ compiled.rendered[k].value = compiled.values[k]

C1_Witness ==
  /\ Compiled
  /\ call.fn = "sql" /\ call.kind = "nested"
  /\ Len(compiled.values) = 3
  /\ PlaceholdersIn(compiled.text) = <<"$1", "$2", "$3">>

SqlParameterCompiled == Compiled /\ call.fn = "sql" /\ call.kind = "param"

JsonCastText == <<"CAST(", "$1", " AS \"json\")">>

\* C7: a Parameter with cast === true is JSON-serialized and rendered
\* CAST($k AS "json") whatever its value
C7_CastTrueAlwaysJson ==
  (SqlParameterCompiled /\ call.arg.cast = Bool(TRUE)
     /\ call.arg.value.t \in {"arr", "obj", "str", "num", "null", "inst"}) =>
    /\ compiled.text = JsonCastText
    /\ compiled.values = <<Str(JSONstringify(call.arg.value))>>

\* C8: a Parameter whose cast is a type name is rendered CAST($k AS "typename")
\* with its value pushed unchanged, whatever the value and the global flags
C8_CastTypeNameAlwaysPlainValue ==
  (SqlParameterCompiled /\ call.arg.cast.t = "str") =>
    /\ compiled.text = <<"CAST(", "$1", " AS \"">> \o call.arg.cast.s \o <<"\")">>
    /\ compiled.values = <<call.arg.value>>

\* C9: cast === false always gives plain $k with the raw value; cast unset gives the
\* JSON cast exactly when a global flag applies to the value (array / plain object)
C9_AutoCastDecision ==
  SqlParameterCompiled =>
    LET p == call.arg
        auto == \/ (config.castArrayParamsToJson /\ p.value.t = "arr")
                \/ (config.castObjectParamsToJson /\ p.value.t = "obj")
        plain == compiled.text = <<"$1">> /\ compiled.values = <<p.value>>
        json == compiled.text = JsonCastText /\ compiled.values = <<Str(JSONstringify(p.value))>>
    IN /\ (p.cast = Bool(FALSE) => plain)
       /\ (p.cast = Undef => IF auto THEN json ELSE plain)

C9_Witness ==
  /\ SqlParameterCompiled
  /\ call.arg.cast = Bool(FALSE)
  /\ call.arg.value.t = "arr"
  /\ config.castArrayParamsToJson
  /\ compiled.text = <<"$1">>

\* C10: an identifier that begins and ends with a double quote reaches text unchanged
C10_PreQuotedPassThrough ==
  (Compiled /\ call.fn = "sql" /\ call.kind = "identifier"
     /\ startsWith(call.arg.s, Q) /\ endsWith(call.arg.s, Q)) =>
    compiled.text = call.arg.s

-----------------------------------------------------------------------------
(* Shortcut calls *)

Occurs(s, text) == \E i \in 1..(Len(text) - Len(s) + 1) : SubSeq(text, i, i + Len(s) - 1) = s

LockStrings(lock) == {lock.for} \cup (IF lock.wait.t = "str" THEN {lock.wait.s} ELSE {})

\* the strings a caller hands over as options that are not identifiers
OptionStrings(c) ==
  CASE c.fn = "truncate" -> {c.opts[i] : i \in 1..Len(c.opts)}
    [] c.fn \in SelectFunctions /\ c.options.lock.t = "lock" -> LockStrings(c.options.lock)
    [] c.fn \in SelectFunctions /\ c.options.lock.t = "arr" ->
         UNION {LockStrings(c.options.lock.a[i]) : i \in 1..Len(c.options.lock.a)}
    [] OTHER -> {}

\* the data string never reaches text: wherever a caller put it, it is in values
\* (as itself, or inside a JSON-serialized value)
DataStringOnlyInValues ==
  /\ \A i \in 1..Len(compiled.text) : compiled.text[i] # DataString.s[1]
  /\ \A obj \in (IF call.fn = "insert" THEN {call.values}
                  ELSE IF call.fn = "deletes" THEN {call.where} ELSE {}) :
       (obj.t = "obj" /\ \E i \in 1..Len(obj.kv) : obj.kv[i].v = DataString)
         => \E k \in 1..Len(compiled.values) : compiled.values[k] = DataString

\* C2 as stated: neither a column-value string nor an option string of
\* select / upsert / truncate appears verbatim in text
C2_InjectionClosure ==
  Compiled =>
    /\ DataStringOnlyInValues
    /\ \A o \in OptionStrings(call) : ~Occurs(o, compiled.text)

\* C2, amended: a string given as a column value never appears in text and is carried
\* in values; the options of truncate are joined with spaces and spliced into text as
\* they are, and so are the for / wait strings of select's lock option
C2_ColumnValuesNeverInText ==
  Compiled =>
    /\ DataStringOnlyInValues
    /\ (call.fn = "truncate" /\ Len(call.opts) > 0) =>
         LET tail == <<" ">> \o join(call.opts, <<" ">>)
         IN SubSeq(compiled.text, Len(compiled.text) - Len(tail) + 1, Len(compiled.text)) = tail
    /\ \A o \in OptionStrings(call) : Occurs(o, compiled.text)

C2_Witness ==
  /\ Compiled
  /\ call.fn = "insert" /\ call.values.t = "obj"
  /\ \E i \in 1..Len(call.values.kv) : call.values.kv[i].v = DataString
  /\ DataString \in {compiled.values[k] : k \in 1..Len(compiled.values)}
  /\ ~Occurs(DataString.s, compiled.text)

\* the same entries in every insertion order
Reorderings(obj) ==
  {Obj(kv) : kv \in {p \in [1..Len(obj.kv) -> {obj.kv[i] : i \in 1..Len(obj.kv)}] : Injective(p)}}

\* a values / where argument with the keys of its object (of each of its rows) reordered
ReorderedArguments(v) ==
  IF v.t = "obj" THEN Reorderings(v)
  ELSE IF v.t = "arr"
       THEN {Arr(rows) : rows \in {r \in [1..Len(v.a) -> UNION {Reorderings(v.a[i]) : i \in 1..Len(v.a)}] :
                                     \A i \in 1..Len(v.a) : r[i] \in Reorderings(v.a[i])}}
       ELSE {v}

ReorderedCalls(c) ==
  CASE c.fn = "sql" /\ c.kind \in {"where", "cols", "vals"} ->
         {[c EXCEPT !.arg = o] : o \in ReorderedArguments(c.arg)}
    [] c.fn \in {"insert", "upsert"} -> {[c EXCEPT !.values = v] : v \in ReorderedArguments(c.values)}
    [] c.fn = "update" ->
         {[c EXCEPT !.values = v, !.where = w] :
            v \in ReorderedArguments(c.values), w \in ReorderedArguments(c.where)}
    [] c.fn \in {"deletes"} \cup SelectFunctions -> {[c EXCEPT !.where = w] : w \in ReorderedArguments(c.where)}
    [] OTHER -> {c}

TakesObject(c) ==
  \/ c.fn = "sql" /\ c.kind \in {"where", "cols", "vals"}
  \/ c.fn \in {"insert", "upsert", "update", "deletes"} \cup SelectFunctions

SameQueryReordered(c) ==
  \A r \in ReorderedCalls(c) :
    LET q == compile(FragmentOf(r), StartState, Undef, Undef)
    IN q.text = compiled.text /\ q.values = compiled.values

\* C3: the same call with the keys of its values / where object in another insertion
\* order compiles to the same text and the same values
C3_SortOrderDeterminism ==
  (Compiled /\ TakesObject(call)) => SameQueryReordered(call)

\* key order does not matter anywhere but in upsert
KeyOrderMattersOnlyInUpsert ==
  (Compiled /\ TakesObject(call) /\ call.fn # "upsert") => SameQueryReordered(call)

\* the keys of all rows, each once, ascending
SortedUnionOfKeys(rows) ==
  LET keys == UNION {{rows[i].kv[j].k : j \in 1..Len(rows[i].kv)} : i \in 1..Len(rows)}
  IN CHOOSE s \in [1..Cardinality(keys) -> keys] :
       /\ Injective(s)
       /\ \A i, j \in 1..Len(s) : i < j => StrLess(s[i], s[j])

\* INSERT INTO "t" (columns) VALUES tuples, with one tuple per row and one entry per
\* column: DEFAULT for a key the row lacks, holds as undefined or holds as the Default
\* sentinel, the next placeholder for any other value
ExpectedInsert(rows, columns) ==
  LET C == Len(columns)
      rowOf(c) == rows[((c - 1) \div C) + 1]
      colOf(c) == columns[((c - 1) % C) + 1]
      IsDefault(c) == ~HasKey(rowOf(c), colOf(c)) \/ Get(rowOf(c), colOf(c)).t \in {"undef", "Default"}
      valueCells == SelectSeq([c \in 1..(Len(rows) * C) |-> c], LAMBDA c : ~IsDefault(c))
      number(c) == Cardinality({d \in 1..c : ~IsDefault(d)})
      entry(c) == IF IsDefault(c) THEN <<"DEFAULT">> ELSE <<Placeholder(number(c))>>
      tuple(i) == <<"(">> \o join([j \in 1..C |-> entry((i - 1) * C + j)], <<", ">>) \o <<")">>
  IN [text |-> <<"INSERT INTO ", Q, "t", Q, " (">>
               \o join([j \in 1..C |-> <<Q>> \o columns[j] \o <<Q>>], <<", ">>)
               \o <<") VALUES ">>
               \o join([i \in 1..Len(rows) |-> tuple(i)], <<", ">>)
               \o <<" RETURNING ">>,
      values |-> [n \in 1..Len(valueCells) |-> Get(rowOf(valueCells[n]), colOf(valueCells[n]))]]

\* the compiled query starts with the expected text and values
StartsAs(expected) ==
  /\ Len(compiled.text) >= Len(expected.text)
  /\ SubSeq(compiled.text, 1, Len(expected.text)) = expected.text
  /\ Len(compiled.values) >= Len(expected.values)
  /\ SubSeq(compiled.values, 1, Len(expected.values)) = expected.values

ArrayInsertCompiled ==
  Compiled /\ call.fn = "insert" /\ call.values.t = "arr" /\ Len(call.values.a) > 0

\* C4: insert(table, rows) lists the ascending union of the rows' keys, writes one
\* tuple per row in input order with one entry per listed column in that order:
\* DEFAULT where the row lacks the key or holds undefined, else the row's own value
C4_ArrayInsertStructure ==
  ArrayInsertCompiled =>
    StartsAs(ExpectedInsert(call.values.a, SortedUnionOfKeys(call.values.a)))

C4_Witness ==
  /\ ArrayInsertCompiled
  /\ Len(call.values.a) = 2
  /\ ObjectKeys(call.values.a[1]) = <<ColB>>
  /\ ObjectKeys(call.values.a[2]) = <<ColB, ColA>>
  /\ Get(call.values.a[2], ColB) = Undef
  /\ compiled.values = <<Num(12), Num(21)>>
  /\ Occurs(<<"(", "DEFAULT", ", ", "$1", ")", ", ", "(", "$2", ", ", "DEFAULT", ")">>, compiled.text)

\* a single values object whose values are data, undefined or the Default sentinel
PlainObjectInsertCompiled ==
  /\ Compiled /\ call.fn = "insert" /\ call.values.t = "obj"
  /\ \A i \in 1..Len(call.values.kv) : call.values.kv[i].v.t \in {"num", "str", "undef", "Default"}

\* C5: insert(table, obj) writes DEFAULT for every key of obj whose value is
\* undefined, and such a key adds nothing to values
C5_SingleInsertUndefinedIsDefault ==
  PlainObjectInsertCompiled =>
    StartsAs(ExpectedInsert(<<call.values>>, SortedUnionOfKeys(<<call.values>>)))

-----------------------------------------------------------------------------
(* Running a fragment *)

Count(e) == Len(SelectSeq(events, LAMBDA x : x.e = e))

Heard(listener) == IF listener = "none" THEN 0 ELSE 1

EmptyArrayCall == call.fn \in {"insert", "upsert"} /\ call.values = Arr(<<>>)

\* C6: the fragment of insert(table, []) and of upsert with an empty array is a no-op:
\* run without force never queries and resolves to [] without awaiting; run with
\* force queries exactly once; a run that resolves has told each configured
\* listener exactly once
C6_NoopFastPath ==
  EmptyArrayCall =>
    /\ frag.noop /\ frag.noopResult = Arr(<<>>)
    /\ ~force => (Count("query") = 0 /\ pc # "awaiting")
    /\ (~force /\ pc = "done" /\ "throws" \notin {config.queryListener, config.resultListener})
         => outcome = Resolved(Arr(<<>>))
    /\ (force /\ config.queryListener # "throws") => Count("query") = 1
    /\ Count("query") <= 1
    /\ outcome.t = "resolved" =>
         /\ Count("queryListener") = Heard(config.queryListener)
         /\ Count("resultListener") = Heard(config.resultListener)

C6_Witness ==
  /\ EmptyArrayCall
  /\ call.fn = "upsert"
  /\ pc = "done" /\ ~force
  /\ outcome = Resolved(Arr(<<>>))
  /\ events = <<QueryListenerEvent(compiled, queryable.txnId),
                 ResultListenerEvent(Arr(<<>>), queryable.txnId, compiled)>>

-----------------------------------------------------------------------------
(* Identifiers *)

IdentifierCompiled == Compiled /\ call.fn = "sql" /\ call.kind = "identifier"

PreQuoted(id) == id[1] = Q /\ id[Len(id)] = Q

\* the dot-separated segments of an identifier, by the positions of its dots
Segments(id) ==
  LET dots == {i \in 1..Len(id) : id[i] = "."}
      n == Cardinality(dots)
      at == CHOOSE f \in [0..(n + 1) -> 0..(Len(id) + 1)] :
              /\ f[0] = 0 /\ f[n + 1] = Len(id) + 1
              /\ \A k \in 1..n : f[k] \in dots
              /\ \A k \in 0..n : f[k] < f[k + 1]
  IN [k \in 1..(n + 1) |-> SubSeq(id, at[k - 1] + 1, at[k] - 1)]

\* the segments, each in double quotes, with dots between them
RECURSIVE QuotedSegments(_)
QuotedSegments(segs) ==
  IF segs = <<>> THEN <<>>
  ELSE <<Q>> \o Head(segs) \o <<Q>>
       \o (IF Len(segs) > 1 THEN <<".">> \o QuotedSegments(Tail(segs)) ELSE <<>>)

\* C11: an identifier that is not pre-quoted compiles to its dot-separated segments,
\* each in double quotes and rejoined with dots: snake-cased when the identifier
\* holds an upper-case letter, unchanged when it holds none
C11_UnquotedIdentifierQuoting ==
  (IdentifierCompiled /\ ~PreQuoted(call.arg.s)) =>
    LET id == call.arg.s
    IN compiled.text = IF \E i \in 1..Len(id) : id[i] \in {"A", "B"}
                       THEN QuotedSegments([k \in 1..Len(Segments(id)) |-> snakeCase(Segments(id)[k])])
                       ELSE QuotedSegments(Segments(id))

C11_Witness ==
  /\ IdentifierCompiled
  /\ call.arg.s = <<"a", ".", "B">>
  /\ compiled.text = <<Q, "a", Q, ".", Q, "b", Q>>

-----------------------------------------------------------------------------
(* Extras *)

HasExtras(c) ==
  /\ c.fn \in {"insert", "upsert", "update", "deletes"} \cup SelectFunctions
  /\ c.options.extras.t = "obj"

\* the same call with the keys of its extras object in every insertion order
ExtrasCalls(c) == {[c EXCEPT !.options.extras = e] : e \in Reorderings(c.options.extras)}

\* C12: the extras keys are rendered in ascending order, so the same call with the
\* extras object's keys in another insertion order compiles to the same text and values
C12_ExtrasKeysSorted ==
  (Compiled /\ HasExtras(call)) =>
    /\ extrasKeys(call.options.extras) = sort(ObjectKeys(call.options.extras))
    /\ \A r \in ExtrasCalls(call) :
         LET q == compile(FragmentOf(r), StartState, Undef, Undef)
         IN q.text = compiled.text /\ q.values = compiled.values

-----------------------------------------------------------------------------
(* Upsert *)

UpsertCompiled ==
  /\ Compiled
  /\ call.fn = "upsert"
  /\ ~(call.values.t = "arr" /\ Len(call.values.a) = 0)

QuotedColumn(c) == <<Q>> \o c \o <<Q>>

\* column c is rendered from the row proposed for insertion
RefersToExcluded(c, text) ==
  \E prefix \in {"EXCLUDED.", "CASE WHEN EXCLUDED.", " ELSE EXCLUDED."} :
    Occurs(<<prefix>> \o QuotedColumn(c), text)

SuppliedUpdateValues(options) ==
  IF options.updateValues.t = "obj"
  THEN {c \in Members(ObjectKeys(options.updateValues)) : Get(options.updateValues, c) # Undef}
  ELSE {}

\* C13: a column with a supplied updateValues entry is updated to the supplied value:
\* nothing in the query text renders it as EXCLUDED.c
C13_UpdateValuesOverride ==
  UpsertCompiled =>
    \A c \in SuppliedUpdateValues(call.options) : ~RefersToExcluded(c, compiled.text)

\* seq without the later occurrences of each element
FirstSeen(seq) ==
  LET keep == {i \in 1..Len(seq) : \A j \in 1..(i - 1) : seq[j] # seq[i]}
  IN [k \in 1..Cardinality(keep) |-> seq[CHOOSE i \in keep : Cardinality({j \in keep : j < i}) = k - 1]]

Arrangements(seq) == {p \in [1..Len(seq) -> Members(seq)] : Injective(p)}

UpsertedRows(c) == IF c.values.t = "arr" THEN c.values.a ELSE <<c.values>>

UpdateValuesKeys(options) ==
  IF options.updateValues.t = "obj" THEN ObjectKeys(options.updateValues) ELSE <<>>

\* the update column sets the statement allows: the specified columns (one column
\* or a list), or the inserted columns in some order, then the keys of updateValues
UpdateColumnSets(c) ==
  LET specified == c.options.updateColumns
  IN CASE specified.t = "arr" ->
            {FirstSeen([i \in 1..Len(specified.a) |-> specified.a[i].s] \o UpdateValuesKeys(c.options))}
       [] specified.t = "str" -> {FirstSeen(<<specified.s>> \o UpdateValuesKeys(c.options))}
       [] OTHER -> {FirstSeen(base \o UpdateValuesKeys(c.options)) :
                      base \in Arrangements(SortedUnionOfKeys(UpsertedRows(c)))}

PlainUpdateValue(c) == <<"EXCLUDED.">> \o QuotedColumn(c)

NoNullUpdateValue(c) ==
  <<"CASE WHEN EXCLUDED.">> \o QuotedColumn(c) \o <<" IS NULL THEN ">> \o QuotedColumn(TableT.s) \o <<".">>
    \o QuotedColumn(c) \o <<" ELSE EXCLUDED.">> \o QuotedColumn(c) \o <<" END">>

\* the conflict actions for an update column set: NOTHING, or the columns and one
\* value per column, each value rendered from its own column
ConflictActions(columns) ==
  IF columns = <<>> THEN {<<"NOTHING">>}
  ELSE {<<"UPDATE SET (">> \o join([i \in 1..Len(columns) |-> QuotedColumn(columns[i])], <<", ">>)
          \o <<") = ROW(">>
          \o join([i \in 1..Len(columns) |-> IF noNull[i] THEN NoNullUpdateValue(columns[i])
                                             ELSE PlainUpdateValue(columns[i])], <<", ">>)
          \o <<")">> : noNull \in [1..Len(columns) -> BOOLEAN]}

ConflictTargetText(target) ==
  CASE target.t = "str" -> <<"(">> \o QuotedColumn(target.s) \o <<")">>
    [] target.t = "arr" ->
         <<"(">> \o join([i \in 1..Len(target.a) |-> QuotedColumn(target.a[i].s)], <<", ">>) \o <<")">>
    [] target.t = "constraint" -> <<"ON CONSTRAINT ">> \o QuotedColumn(target.value.s)

\* C14: the update columns of an upsert are the specified columns (the inserted columns
\* when none are specified) followed by the keys of updateValues, each once in first-seen
\* order; the query reads ON CONFLICT <target> DO UPDATE SET (cols) = ROW(vals) with the
\* i-th value rendered from the i-th column, and DO NOTHING exactly when there are none
C14_UpdateColumnSetAndConflictAction ==
  UpsertCompiled =>
    \E columns \in UpdateColumnSets(call) :
      /\ \E action \in ConflictActions(columns) :
           Occurs(<<"ON CONFLICT ">> \o ConflictTargetText(call.conflictTarget) \o <<" DO", " ">>
                    \o action \o <<" ", "RETURNING ">>, compiled.text)
      /\ Occurs(<<" DO", " ", "NOTHING">>, compiled.text) <=> (columns = <<>>)

C14_Witness ==
  /\ UpsertCompiled
  /\ call.options.updateColumns = Arr(<<Str(ColA)>>)
  /\ call.options.updateValues.t = "obj"
  /\ HasKey(call.options.updateValues, ColA)
  /\ Occurs(<<"UPDATE SET (", Q, "a", Q, ") = ROW(">>, compiled.text)

C14_WitnessNothing ==
  /\ UpsertCompiled
  /\ call.options.updateColumns = Arr(<<>>)
  /\ Occurs(<<" DO", " ", "NOTHING">>, compiled.text)

\* noNullUpdateColumns names column c: it is all, the column itself, or a list holding it
NamedNoNull(noNullUpdateColumns, c) ==
  \/ noNullUpdateColumns = all
  \/ noNullUpdateColumns = Str(c)
  \/ noNullUpdateColumns.t = "arr"
       /\ \E i \in 1..Len(noNullUpdateColumns.a) : noNullUpdateColumns.a[i] = Str(c)

ReportPart == " || jsonb_build_object('$action', CASE xmax WHEN 0 THEN 'INSERT' ELSE 'UPDATE' END)"

EndsWith(text, tail) ==
  Len(text) >= Len(tail) /\ SubSeq(text, Len(text) - Len(tail) + 1, Len(text)) = tail

\* C15: every update column named by noNullUpdateColumns is updated to
\* CASE WHEN EXCLUDED.c IS NULL THEN t.c ELSE EXCLUDED.c END and every other one to
\* EXCLUDED.c; unless reportAction is "suppress" the returning selector ends with the
\* $action object
C15_NoNullUpdateColumns ==
  UpsertCompiled =>
    /\ \E columns \in UpdateColumnSets(call) :
         columns # <<>> =>
           Occurs(<<") = ROW(">>
                    \o join([i \in 1..Len(columns) |->
                               IF NamedNoNull(call.options.noNullUpdateColumns, columns[i])
                               THEN NoNullUpdateValue(columns[i])
                               ELSE PlainUpdateValue(columns[i])], <<", ">>)
                    \o <<")", " ", "RETURNING ">>, compiled.text)
    /\ call.options.reportAction # Str(<<"suppress">>) =>
         EndsWith(compiled.text, <<ReportPart, " AS result">>)

C15_Witness ==
  /\ UpsertCompiled
  /\ call.options.noNullUpdateColumns = Arr(<<Str(ColB)>>)
  /\ call.options.reportAction = Undef
  /\ Occurs(PlainUpdateValue(ColA) \o <<", ">> \o NoNullUpdateValue(ColB), compiled.text)
  /\ EndsWith(compiled.text, <<ReportPart, " AS result">>)

-----------------------------------------------------------------------------
(* Select: lateral sub-queries *)

SelectCompiled == Compiled /\ call.fn \in SelectFunctions

LateralOpen == " LEFT JOIN LATERAL ("
LateralClose == ") AS \"lateral_"
PassthruClose == ") AS \"lateral_passthru\" ON true"
RowsFrom == " AS result FROM "

\* how many lateral sub-queries are open in front of piece p
Depth(text, p) ==
  Cardinality({i \in 1..(p - 1) : text[i] = LateralOpen})
    - Cardinality({i \in 1..(p - 1) : text[i] \in {LateralClose, PassthruClose}})

Greatest(S) == CHOOSE i \in S : \A j \in S : j <= i
Least(S) == CHOOSE i \in S : \A j \in S : i <= j

\* the quoted identifier that starts at piece s / that ends at piece e
IdentifierFrom(text, s) == SubSeq(text, s, Least({j \in (s + 1)..Len(text) : text[j] = Q}))
IdentifierUpTo(text, e) == SubSeq(text, Greatest({j \in 1..(e - 1) : text[j] = Q}), e)

\* a qualified column reference "x"."y" has its dot at piece p
QualifiedAt(text, p) ==
  p > 1 /\ p < Len(text) /\ text[p] = "." /\ text[p - 1] = Q /\ text[p + 1] = Q

QualifiedReferences(text) == {p \in 1..Len(text) : QualifiedAt(text, p)}

\* the opening of the innermost lateral sub-query that holds piece p
SubQueryOf(text, p) ==
  Greatest({i \in 1..(p - 1) : text[i] = LateralOpen /\ Depth(text, i) = Depth(text, p) - 1})

\* the FROM of the select that directly encloses the sub-query opened at piece o, and
\* the name that select goes by: its alias when it has one, else its table
FromOf(text, o) == Greatest({i \in 1..(o - 1) : text[i] = RowsFrom /\ Depth(text, i) = Depth(text, o)})

NameAfterFrom(text, f) ==
  LET table == IdentifierFrom(text, f + 1)
      next == f + 1 + Len(table)
  IN IF next < Len(text) /\ text[next] = " AS " THEN IdentifierFrom(text, next + 1) ELSE table

\* every qualified reference sits inside a lateral sub-query and is qualified by the
\* name of the select that directly encloses that sub-query
ParentReferencesResolved(text) ==
  \A p \in QualifiedReferences(text) :
    /\ Depth(text, p) >= 1
    /\ IdentifierUpTo(text, p - 1) = NameAfterFrom(text, FromOf(text, SubQueryOf(text, p)))

MapLateral(c) == c.fn \in SelectFunctions /\ c.options.lateral.t = "obj"

LateralKeys(c) == sort(ObjectKeys(c.options.lateral))

\* the closings of the sub-queries of the outermost select, left to right
TopCloses(text) ==
  LET S == {i \in 1..Len(text) : text[i] = LateralClose /\ Depth(text, i) = 1}
  IN [n \in 1..Cardinality(S) |-> CHOOSE i \in S : Cardinality({j \in S : j < i}) = n - 1]

\* one LEFT JOIN LATERAL (...) AS "lateral_k" ON true per key, ascending, one after another
LateralsSpliced(c, text) ==
  LET keys == LateralKeys(c)
      closes == TopCloses(text)
      after(n) == closes[n] + Len(keys[n]) + 2
  IN /\ Len(closes) = Len(keys)
     /\ Cardinality({i \in 1..Len(text) : text[i] = LateralOpen /\ Depth(text, i) = 0}) = Len(keys)
     /\ \A n \in 1..Len(keys) :
          /\ SubSeq(text, closes[n], after(n) - 1) = <<LateralClose>> \o keys[n] \o <<"\" ON true">>
          /\ n < Len(keys) => text[after(n)] = LateralOpen

\* the row is merged with jsonb_build_object(key, "lateral_k".result, ...) over the
\* ascending keys, each key a parameter cast to text
LateralsMergedByParameter(c, q) ==
  \E first \in 1..Len(q.values) :
    /\ Occurs(<<" || jsonb_build_object(">>
                \o join([n \in 1..Len(LateralKeys(c)) |->
                           <<Placeholder(first + n - 1), "::text, \"lateral_">> \o LateralKeys(c)[n]
                             \o <<"\".result">>], <<", ">>)
                \o <<")", RowsFrom>>, q.text)
    /\ \A n \in 1..Len(LateralKeys(c)) : q.values[first + n - 1] = Str(LateralKeys(c)[n])

\* the same with each key written into the text as a quoted literal
LateralsMergedByLiteral(c, q) ==
  Occurs(<<" || jsonb_build_object(">>
           \o join([n \in 1..Len(LateralKeys(c)) |->
                      <<"'">> \o LateralKeys(c)[n] \o <<"', \"lateral_">> \o LateralKeys(c)[n]
                        \o <<"\".result">>], <<", ">>)
           \o <<")", RowsFrom>>, q.text)

RowSelect(c) == c.fn \in {"select", "selectOne", "selectExactlyOne"}

-----------------------------------------------------------------------------
(* Select: modes *)

ManyOpen == "SELECT coalesce(jsonb_agg(result), '[]') AS result FROM ("
ManyClose == ") AS "

SelectAlias(c) == IF Truthy(c.options.alias) THEN c.options.alias ELSE c.table

SubQueryName(c) == <<"\"sq_">> \o SelectAlias(c).s \o <<Q>>

ClauseKeywords ==
  {" WHERE ", " GROUP BY ", " HAVING ", " ORDER BY ", " LIMIT ", " FETCH FIRST ", " OFFSET ", " FOR "}

\* the clauses the call asks for
ClausesAsked(c) ==
  (IF c.where # all THEN {" WHERE "} ELSE {})
    \cup (IF Truthy(c.options.groupBy) THEN {" GROUP BY "} ELSE {})
    \cup (IF Truthy(c.options.having) THEN {" HAVING "} ELSE {})
    \cup (IF c.options.order # Undef THEN {" ORDER BY "} ELSE {})
    \cup (IF c.options.limit # Undef
          THEN {IF Truthy(c.options.withTies) THEN " FETCH FIRST " ELSE " LIMIT "} ELSE {})
    \cup (IF c.options.offset # Undef THEN {" OFFSET "} ELSE {})
    \cup (IF c.options.lock # Undef THEN {" FOR "} ELSE {})

\* the non-empty answers of a driver
AnsweredRows == {rows \in SeqsUpTo(DriverRowChoices, MaxRows) : rows # <<>>}

\* text is SELECT coalesce(jsonb_agg(result), '[]') AS result FROM (<inner>) AS "sq_<alias>"
\* with every clause keyword inside <inner>
WrappedMany(c, text) ==
  LET close == Len(text) - Len(SubQueryName(c))
  IN /\ close > 2
     /\ text[1] = ManyOpen
     /\ text[2] = "SELECT"
     /\ SubSeq(text, close, Len(text)) = <<ManyClose>> \o SubQueryName(c)
     /\ \A i \in 1..Len(text) : text[i] \in ClauseKeywords => (2 < i /\ i < close)
     /\ \A clause \in ClausesAsked(c) :
          \E i \in 3..(close - 1) : text[i] = clause /\ Depth(text, i) = 0

\* text is the rows query itself
Unwrapped(text) ==
  /\ text[1] = "SELECT"
  /\ \A i \in 1..Len(text) : text[i] \in {ManyOpen, ManyClose} => Depth(text, i) >= 1

\* C17: select in Many mode compiles to the rows query wrapped in
\* SELECT coalesce(jsonb_agg(result), '[]') AS result FROM (...) AS "sq_<alias>", every
\* clause inside the parentheses, and its run transform returns rows[0].result; the
\* other select functions compile to the rows query unwrapped
C17_ManyModeWrapping ==
  SelectCompiled =>
    IF call.fn = "select"
    THEN /\ WrappedMany(call, compiled.text)
         /\ \A rows \in AnsweredRows : runResultTransform(frag, rows) = Get(rows[1], ResultKey)
    ELSE Unwrapped(compiled.text)

C17_Witness ==
  /\ SelectCompiled
  /\ call.fn = "select"
  /\ call.where # all
  /\ call.options.order.t = "arr"
  /\ call.options.offset = Num(2)
  /\ WrappedMany(call, compiled.text)
  /\ EndsWith(compiled.text, <<" OFFSET ", Placeholder(Len(compiled.values)), ManyClose, "\"sq_", "t", Q>>)

LimitOne(c) == c.fn \in {"selectOne", "selectExactlyOne"}

\* the rows query has a LIMIT $k clause of its own, and values[k] is 1
LimitsToOneRow(q) ==
  \E i \in 1..(Len(q.text) - 1), k \in 1..Len(q.values) :
    /\ q.text[i] = " LIMIT "
    /\ Depth(q.text, i) = 0
    /\ q.text[i + 1] = Placeholder(k)
    /\ q.values[k] = Num(1)

\* C18: whatever the options, the query of selectOne / selectExactlyOne has a LIMIT $k
\* clause whose parameter is 1
C18_OneModesLimitToOneRow ==
  (SelectCompiled /\ LimitOne(call)) => LimitsToOneRow(compiled)

\* without withTies the clause is there, and a limit of the caller is replaced by 1
LimitOneWithoutTies ==
  (SelectCompiled /\ LimitOne(call) /\ ~Truthy(call.options.withTies)) =>
    /\ LimitsToOneRow(compiled)
    /\ \A k \in 1..Len(compiled.values) : compiled.values[k] # call.options.limit

NumericFunctions == {"count", "sum", "avg", "min", "max"}

\* the aggregate call of a Numeric select: over the columns when given, else over *
AggregateCall(c) ==
  IF Truthy(c.options.columns)
  THEN <<c.fn, "(">>
         \o join([i \in 1..Len(c.options.columns.a) |-> QuotedColumn(c.options.columns.a[i].s)], <<", ">>)
         \o <<")">>
  ELSE <<c.fn, "(*)">>

\* the select list, between SELECT [DISTINCT ...] and the first AS result FROM
SelectList(text) ==
  LET from == Least({i \in 1..Len(text) : text[i] = RowsFrom})
      start == Greatest({i \in 1..(from - 1) : text[i] = " "})
  IN SubSeq(text, start + 1, from - 1)

\* C20: whatever the options, the select list of count / sum / avg / min / max is one
\* aggregate call, <aggregate>(<columns>) or <aggregate>(*), followed by AS result FROM,
\* and the run transform returns Number(rows[0].result)
C20_NumericModeShape ==
  (SelectCompiled /\ call.fn \in NumericFunctions) =>
    /\ SelectList(compiled.text) = AggregateCall(call)
    /\ \A rows \in AnsweredRows : runResultTransform(frag, rows) = Number(Get(rows[1], ResultKey))

\* the shape holds whenever lateral is not a single fragment
NumericShapeWithoutPassthru ==
  (SelectCompiled /\ call.fn \in NumericFunctions /\ call.options.lateral.t # "frag") =>
    /\ SelectList(compiled.text) = AggregateCall(call)
    /\ \A rows \in AnsweredRows : runResultTransform(frag, rows) = Number(Get(rows[1], ResultKey))

-----------------------------------------------------------------------------
(* Select: running selectOne and selectExactlyOne *)

\* run has ended after the driver answered with these rows
AnsweredWith(fn, rows) ==
  /\ pc = "done"
  /\ call.fn = fn
  /\ driver = Answered(rows)

IsNotExactlyOne(out) ==
  /\ out.t = "rejected"
  /\ "name" \in DOMAIN out.error
  /\ out.error.name = "NotExactlyOneError"
  /\ "query" \in DOMAIN out.error

\* the error's query field is the compiled query itself: it has its text and values
CarriesCompiledQuery(error) ==
  /\ {"text", "values"} \subseteq DOMAIN error.query
  /\ error.query.text = compiled.text
  /\ error.query.values = compiled.values

\* the error's query field is the fragment, and compiling it gives the query that was sent
CarriesFragment(error) ==
  /\ error.query = frag
  /\ LET q == compile(error.query, StartState, Undef, Undef)
     IN q.text = compiled.text /\ q.values = compiled.values
  /\ \E i \in 1..Len(events) : events[i] = QueryEvent(compiled)

\* what run does with the driver's rows when no result listener throws
ResolvesOrRaises ==
  /\ \A rows \in AnsweredRows :
       (AnsweredWith("selectExactlyOne", rows) /\ config.resultListener # "throws")
         => outcome = Resolved(Get(rows[1], ResultKey))
  /\ (AnsweredWith("selectOne", <<>>) /\ config.resultListener # "throws")
       => outcome = Resolved(Undef)

\* C19 as stated: with zero rows run of selectExactlyOne fails with a NotExactlyOne error
\* that carries the compiled query (text and values); with a row it resolves to the row's
\* result; selectOne with zero rows resolves to undefined
C19_NotExactlyOneCarriesCompiledQuery ==
  /\ AnsweredWith("selectExactlyOne", <<>>)
       => (IsNotExactlyOne(outcome) /\ CarriesCompiledQuery(outcome.error))
  /\ ResolvesOrRaises

\* C19 amended: the error carries the select's fragment, whose compile() gives the text
\* and values of the query that was sent
C19_NotExactlyOne ==
  /\ AnsweredWith("selectExactlyOne", <<>>)
       => (IsNotExactlyOne(outcome) /\ CarriesFragment(outcome.error))
  /\ ResolvesOrRaises

C19_Witness ==
  /\ AnsweredWith("selectExactlyOne", <<>>)
  /\ IsNotExactlyOne(outcome)
  /\ outcome.error.query.t = "frag"
  /\ compiled.text = <<"SELECT", " ", "to_jsonb(", Q, "t", Q, ".*)", " AS result FROM ", Q, "t", Q,
                       " LIMIT ", "$1">>

C19_WitnessSelectOne ==
  /\ AnsweredWith("selectOne", <<>>)
  /\ outcome = Resolved(Undef)

-----------------------------------------------------------------------------
(* run: listeners and errors *)

\* the positions in the log of the events of one kind
Positions(e) == {i \in 1..Len(events) : events[i].e = e}

RunStarted == pc \in {"awaiting", "done"} /\ compiled # Undef /\ compiled.err = ""

\* what run hands to the result listener: the transform of the driver's rows, or
\* the no-op result when the driver was bypassed
RunResult ==
  IF driver.t = "answered" THEN runResultTransform(frag, driver.rows) ELSE frag.noopResult

\* C21: in a run, the query listener (if configured) is called once, first, with the
\* compiled query and the queryable's transaction id, before any call of
\* queryable.query; the result listener (if configured) is called only once the result
\* is there, last, and before run resolves; all are given the same compiled query
C21_ListenerOrdering ==
  RunStarted =>
    /\ Positions("queryListener") = (IF config.queryListener = "none" THEN {} ELSE {1})
    /\ \A i \in Positions("queryListener") :
         events[i] = QueryListenerEvent(compiled, queryable.txnId)
    /\ \A i \in Positions("queryListener"), j \in Positions("query") : i < j
    /\ \A j \in Positions("query") : events[j] = QueryEvent(compiled)
    /\ \A k \in Positions("resultListener") :
         /\ config.resultListener # "none"
         /\ pc = "done"
         /\ k = Len(events)
         /\ Cardinality(Positions("resultListener")) = 1
         /\ hitsDatabase(frag, force) => driver.t = "answered"
         /\ RunResult.t # "thrown"
         /\ events[k] = ResultListenerEvent(RunResult, queryable.txnId, compiled)
    /\ outcome.t = "resolved" =>
         /\ outcome.result = RunResult
         /\ config.resultListener # "none" => Positions("resultListener") # {}

C21_Witness ==
  /\ RunStarted
  /\ pc = "done"
  /\ call.fn = "select"
  /\ queryable = Queryable(Num(7))
  /\ driver.t = "answered" /\ Len(driver.rows) = 2
  /\ outcome = Resolved(RunResult)
  /\ events = <<QueryListenerEvent(compiled, Num(7)), QueryEvent(compiled),
                 ResultListenerEvent(RunResult, Num(7), compiled)>>

\* C22: when queryable.query rejects, run rejects with the same error after exactly
\* one call of queryable.query and without a call of the result listener; when the
\* query listener throws, run rejects with its error and queryable.query is not called;
\* when the result transform throws, the result listener is not called
C22_FailFast ==
  (RunStarted /\ pc = "done") =>
    /\ driver.t = "refused" =>
         /\ outcome = Rejected(driver.error)
         /\ Cardinality(Positions("query")) = 1
         /\ Positions("resultListener") = {}
    /\ config.queryListener = "throws" =>
         /\ outcome = Rejected(Thrown("queryListener"))
         /\ Positions("query") = {}
         /\ Positions("resultListener") = {}
    /\ (driver.t = "answered" /\ RunResult.t = "thrown") =>
         /\ outcome = Rejected(RunResult)
         /\ Positions("resultListener") = {}

C22_Witness ==
  /\ RunStarted
  /\ pc = "done"
  /\ config.queryListener = "ok"
  /\ config.resultListener = "ok"
  /\ driver = Refused(Thrown("syntax error"))
  /\ outcome = Rejected(Thrown("syntax error"))
  /\ events = <<QueryListenerEvent(compiled, queryable.txnId), QueryEvent(compiled)>>

C22_WitnessTransformThrows ==
  /\ RunStarted
  /\ pc = "done"
  /\ config.resultListener = "ok"
  /\ driver = Answered(<<>>)
  /\ RunResult.t = "thrown"
  /\ outcome = Rejected(RunResult)

-----------------------------------------------------------------------------
(* Context sentinels *)

SelfError == "The 'self' column alias has no meaning here"
ParentError == "The 'parent' table alias has no meaning here"

Raised(message) == compiled # Undef /\ compiled.err = message

SentinelCall(x) == call.fn = "sql" /\ call.kind = "sentinel" /\ call.arg = x

\* the call compiles self where no column is current
SelfWithoutColumn ==
  \/ SentinelCall(self)
  \/ SentinelCall(SelfFragment)
  \/ SentinelCall(vals(Arr(<<SelfFragment>>)))
  \/ call.fn \in {"update", "deletes"} \cup SelectFunctions /\ call.where = SelfFragment

\* the call compiles a parent reference outside every lateral sub-query
ParentWithoutTable ==
  \E x \in {parent(Undef), parent(Str(ColA)),
            Obj(<<[k |-> ColA, v |-> parent(Undef)]>>),
            Obj(<<[k |-> ColA, v |-> parent(Str(ColB))]>>)} : SentinelCall(x)

\* a sub-query under key b whose predicate map has the entry a: parent()
ArgumentLessParent ==
  /\ MapLateral(call)
  /\ HasKey(call.options.lateral, ColB)
  /\ Get(call.options.lateral, ColB) = SubQuery("count", Undef)

C23_WitnessParent ==
  /\ SentinelCall(Obj(<<[k |-> ColA, v |-> parent(Undef)]>>))
  /\ Raised(ParentError)

C23_WitnessLateral ==
  /\ call.fn = "select"
  /\ ArgumentLessParent
  /\ Compiled
  /\ Occurs(QuotedColumn(ColA) \o <<" = ">> \o QuotedColumn(<<"t">>) \o <<".">> \o QuotedColumn(ColA),
            compiled.text)

-----------------------------------------------------------------------------
(* copy *)

CopyCall == call # NoCall /\ call.fn = "copy"

\* the fields of a fragment that copy's override can name
Overridable == {"literals", "expressions", "parentTable", "preparedName", "noop", "noopResult"}

FragmentFields == Overridable \cup {"runResultTransform"}

\* field by field, the copy equals the original wherever the override names nothing
CopyKeeps(fields) ==
  CopyCall =>
    /\ \A f \in fields \ DOMAIN call.override : frag[f] = call.of[f]
    /\ \A f \in DOMAIN call.override : frag[f] = call.override[f]

\* C24: copy(overrides) returns a fragment that differs from the original only in the
\* overridden fields: literals, expressions, parentTable, preparedName, noop, noopResult
\* and the result transform of the copy equal the original's unless overridden
C24_CopyFrame == CopyKeeps(FragmentFields)

\* what copy does keep: the six fields it reads, not the result transform
CopyKeepsOverridable == CopyKeeps(Overridable)

\* a copy of a fragment whose transform a shortcut function replaced has the default transform
CopyResetsTransform ==
  /\ CopyCall
  /\ call.of.runResultTransform # "camelRows"
  /\ frag.runResultTransform = "camelRows"

-----------------------------------------------------------------------------
(* compile again *)

\* every further compilation returned what the first one returned
SameEachTime ==
  \A i \in 1..Len(compiles) :
    /\ compiled # Undef
    /\ compiles[i].err = compiled.err
    /\ compiles[i].text = compiled.text
    /\ compiles[i].values = compiled.values
    /\ compiles[i].name = compiled.name

\* a step of compile or of run: the caller still holds the fragment of the same call
CompileOrRunStep ==
  /\ call' = call
  /\ call # NoCall
  /\ compiled' # compiled \/ compiles' # compiles \/ pc' # pc

-----------------------------------------------------------------------------
(* prepared *)

\* the i-th call of prepared was given no name
Minted(i) == preparedNames[i].arg = Undef

\* the number of default names minted before the i-th call
MintedBefore(i) == Cardinality({j \in 1..(i - 1) : Minted(j)})

\* C26: over the calls of prepared() in one process, a call without a name assigns
\* _dorjo_prepared_N with N the number of earlier calls without a name, so that N grows
\* and no two default names are equal; a call with a name assigns that name and leaves
\* the counter as it was
C26_DefaultPreparedNames ==
  /\ \A i \in 1..Len(preparedNames) :
       /\ Minted(i) =>
            preparedNames[i].name = Str(<<"_dorjo_prepared_", ToString(MintedBefore(i))>>)
       /\ ~Minted(i) => preparedNames[i].name = preparedNames[i].arg
       /\ \A j \in 1..(i - 1) :
            Minted(i) /\ Minted(j) => preparedNames[j].name # preparedNames[i].name
  /\ preparedNameSeq = MintedBefore(Len(preparedNames) + 1)
  /\ call # NoCall /\ call.fn = "prepared" =>
       frag.preparedName = preparedNames[Len(preparedNames)].name

C26_Witness ==
  /\ Len(preparedNames) = 3
  /\ call.fn = "prepared"
  /\ Minted(1) /\ ~Minted(2) /\ Minted(3)
  /\ preparedNames[1].name = Str(<<"_dorjo_prepared_", "0">>)
  /\ preparedNames[2].name = Str(<<"q">>)
  /\ frag.preparedName = Str(<<"_dorjo_prepared_", "1">>)
  /\ preparedNameSeq = 2

-----------------------------------------------------------------------------
(* the name of the compiled query *)

HasPreparedName(x) == x.preparedName.t \notin {"undef", "null"}

\* C28: the compiled query has a name if and only if the fragment compile() was called
\* on has a prepared name, and then it is that name; the prepared name of an embedded
\* fragment never names the enclosing query
C28_NameFromTopLevel ==
  Compiled =>
    compiled.name = (IF HasPreparedName(frag) THEN frag.preparedName ELSE Undef)

\* the prepared name of the fragment compile() was called on does name the query
TopLevelNameWins == Compiled /\ HasPreparedName(frag) => compiled.name = frag.preparedName

\* a query without a name of its own takes the name of a fragment it embeds
EmbeddedNameLeaks ==
  /\ Compiled
  /\ call.fn = "embed"
  /\ ~HasPreparedName(frag)
  /\ HasPreparedName(call.of)
  /\ compiled.name = call.of.preparedName

-----------------------------------------------------------------------------
(* Select: the lateral sub-queries it is given *)

RECURSIVE Fragments(_)
\* the fragments a value holds: a fragment itself and those among its expressions, the
\* members of an array, the values of an object
Fragments(x) ==
  CASE x.t = "frag" -> {x} \cup UNION {Fragments(x.expressions[i]) : i \in 1..Len(x.expressions)}
    [] x.t = "arr" -> UNION {Fragments(x.a[i]) : i \in 1..Len(x.a)}
    [] x.t = "obj" -> UNION {Fragments(x.kv[i].v) : i \in 1..Len(x.kv)}
    [] OTHER -> {}

\* the sub-queries the caller passed as lateral
GivenLaterals(c) ==
  IF c.options.lateral.t = "frag" THEN {c.options.lateral}
  ELSE {c.options.lateral.kv[i].v : i \in 1..Len(c.options.lateral.kv)}

LateralCall(c) == c.fn \in SelectFunctions /\ c.options.lateral.t \in {"frag", "obj"}

OtherAlias == Str(<<"t", "t">>)

\* the same call with another alias, compiled
UnderOtherAlias(c) ==
  compile(SelectBy(c.fn, c.table, c.where, [c.options EXCEPT !.alias = OtherAlias]),
          StartState, Undef, Undef)

\* the names that qualify the references of the sub-queries of the outermost select
OuterQualifiers(text) ==
  {IdentifierUpTo(text, p - 1) : p \in {r \in QualifiedReferences(text) : Depth(text, r) = 1}}

-----------------------------------------------------------------------------
(* The values vector *)

\* the library's wrappers and sentinels, as opposed to a caller's data
Wrappers == {"param", "parent", "Default", "self", "all", "frag", "raw", "cols", "vals"}

\* C30: whatever the entries of a values object, a values array or a predicate map are
\* (plain values, Parameter instances, ParentColumn references, DEFAULT, fragments), every
\* element of values is a caller's value or its JSON text, never a Parameter or
\* ParentColumn wrapper or a sentinel
C30_ValuesHoldCallerData ==
  Compiled => \A i \in 1..Len(compiled.values) : compiled.values[i].t \notin Wrappers

-----------------------------------------------------------------------------
(* The warning about large numbers *)

LargeNumbers == {<<"int8">>, <<"numeric">>, <<"_", "int8">>, <<"_", "numeric">>}

\* the calls of tsTypeForPgType in which warn was called
Warnings == {i \in 1..Len(tsCalls) : tsCalls[i].warn}

\* C27: over the calls of tsTypeForPgType in one process, the large-numbers warning is
\* given at most once, only in a call about int8 or numeric or an array of them, never in
\* a call whose config sets customJsonParsingForLargeNumbers; such a call leaves the
\* latch as it was, so that the first call about large numbers without the flag warns
C27_OneShotWarning ==
  /\ Cardinality(Warnings) <= 1
  /\ warnedAboutInt8AndNumeric = (Warnings # {})
  /\ \A i \in 1..Len(tsCalls) :
       /\ tsCalls[i].warn =>
            /\ tsCalls[i].pgType \in LargeNumbers
            /\ ~tsCalls[i].config.customJsonParsingForLargeNumbers
       /\ tsCalls[i].warned = (\E j \in 1..i : tsCalls[j].warn)
       /\ (/\ tsCalls[i].pgType \in LargeNumbers
           /\ ~tsCalls[i].config.customJsonParsingForLargeNumbers
           /\ \A j \in 1..(i - 1) : ~tsCalls[j].warn) => tsCalls[i].warn

C27_Witness ==
  /\ Len(tsCalls) = 3
  /\ tsCalls[1].pgType = <<"int8">> /\ tsCalls[1].config.customJsonParsingForLargeNumbers
  /\ ~tsCalls[1].warn /\ ~tsCalls[1].warned
  /\ tsCalls[2].pgType = <<"_", "numeric">> /\ ~tsCalls[2].config.customJsonParsingForLargeNumbers
  /\ tsCalls[2].warn
  /\ tsCalls[3].pgType = <<"numeric">> /\ ~tsCalls[3].config.customJsonParsingForLargeNumbers
  /\ ~tsCalls[3].warn
  /\ warnedAboutInt8AndNumeric
====
